---- MODULE Spec2Model ----
(***************************************************************************)
(* Verification model of the document retrieval engine of advo-chat:       *)
(* the chunker (utils/rag.ts chunkText), the embeddings manager            *)
(* (utils/embeddings.ts) and the ingestion / search operations             *)
(* (utils/rag.ts processDocument, searchChunks, getRelevantContext).       *)
(***************************************************************************)
EXTENDS Integers, Sequences, FiniteSets, TLC

VARIABLES
    \* ---- chunkText(text, chunkSize, overlap): one run of the loop -------
    ckText,      \* the text argument, a sequence of characters
    ckSize,      \* the chunkSize argument
    ckOverlap,   \* the overlap argument
    ckStart,     \* let start
    ckChunks,    \* const chunks (the strings pushed so far)
    ckPc,        \* "loop" while the while-loop runs, "done" after return
    ckResult,    \* the returned array
    \* ---- EmbeddingsManager objects ------------------------------------
    managers,    \* every manager constructed so far: [provider, cache]
    current,     \* let embeddingsManager (index into managers, 0 = null)
    \* ---- direct callers of EmbeddingsManager.getEmbeddings -------------
    calls,       \* per caller: the getEmbeddings call it has made
    settled,     \* per text: the vector a cached provider call returned for
                 \* it since the last clearCache (observation only)
    stale,       \* the cache keys last written by a call that was awaiting
                 \* its provider when clearCache ran (observation only)
    \* ---- the retrieval engine (utils/rag.ts) ---------------------------
    rows,        \* db.documentChunks: the stored chunk records
    pd,          \* per ingestion: the processDocument call it runs
    sr,          \* the searchChunks / getRelevantContext call in progress
    ops,         \* calls made to the engine so far (bounds the run)
    \* ---- the vector stores (utils/vector-store.ts) ---------------------
    ls,          \* the LocalVectorStore.searchChunks call
    pv,          \* the PineconeVectorStore.addChunks call
    \* ---- direct calls of the pure functions ----------------------------
    hs,          \* the SimpleEmbeddings.generateEmbeddings call
    cq,          \* the calculateCosineSimilarity calls on a pair of arrays
    \* ---- the workflow manager (utils/workflows) ------------------------
    agents,      \* db.agents: the ids of the stored agents
    wf,          \* the workflow of the WorkflowManager and its execution
    \* ---- SecurityManager (utils/security.ts) ---------------------------
    sec,         \* the manager: config, encryptionKeys, pending key
                 \* generations, the clock
    acc,         \* the checkAccess call
    enc,         \* an encryptData call and the decryptData call on its result
    \* ---- CollaborationManager (utils/collaboration) --------------------
    collab,      \* the socket and the messages handed to sendMessage
    \* ---- PineconeVectorStore.searchChunks ------------------------------
    ps,          \* the searchChunks call
    \* ---- one LocalEmbeddings instance ----------------------------------
    le,          \* its pipeline field and the calls made on it
    \* ---- the learning records (utils/learning) -------------------------
    learn        \* db.learningSessions, db.agentPerformance and the
                 \* recordLearningSession calls

chunkVars == <<ckText, ckSize, ckOverlap, ckStart, ckChunks, ckPc, ckResult>>
mgrVars == <<managers, current>>
callVars == <<calls, settled, stale>>
engVars == <<rows, pd, sr, ops>>
storeVars == <<ls, pv>>

\* everything outside chunkText, the embeddings manager and the engine
fnVars == <<hs, cq>>
wfVars == <<agents, wf>>
secVars == <<sec, acc, enc>>
svcVars == <<secVars, collab, ps, le, learn>>
appVars == <<storeVars, fnVars, wfVars, svcVars>>

\* everything but the variables of SecurityManager, CollaborationManager,
\* PineconeVectorStore.searchChunks and LocalEmbeddings
baseVars == <<chunkVars, mgrVars, callVars, engVars, storeVars, fnVars, wfVars>>

vars == <<ckText, ckSize, ckOverlap, ckStart, ckChunks, ckPc, ckResult,
          managers, current, calls, settled, stale, rows, pd, sr, ops, ls, pv, hs, cq, agents, wf,
          sec, acc, enc, collab, ps, le, learn>>

(***************************************************************************)
(* Bounds of the model.                                                    *)
(***************************************************************************)
MaxTextLen == 3      \* chunkText is run on every text up to this length
MaxChunkSize == 3    \* ... with every chunkSize in 1..MaxChunkSize
MaxClock == 2        \* key lifetimes the clock of the security manager runs
MaxMessages == 2     \* messages handed to sendMessage in one run
MaxSessions == 1     \* sessions created locally in one run
MaxLearnCallers == 3  \* recordLearningSession calls, overlapping or not
MaxUpdates == 2      \* updateConfig calls on one security manager
MaxRuns == 2         \* executeWorkflow calls on one workflow
MaxSockets == 2      \* sockets with an event to come, and pending reconnect timers
MaxPineconeSearches == 2   \* searchChunks calls on the Pinecone store in one run
MaxLocalCallers == 3  \* overlapping calls on one LocalEmbeddings instance
MaxKeys == 2         \* encryption keys generated in one run
MaxIter == 4         \* iterations of the chunkText loop that are followed

(***************************************************************************)
(* Program constants.                                                      *)
(***************************************************************************)
DefaultChunkSize == 1000
DefaultOverlap == 200
MinChunkLength == 50
MaxReconnectAttempts == 5  \* CollaborationManager.maxReconnectAttempts
KeyLifetimeDays == 30     \* expiresAt: Date.now() + 30 * 24 * 60 * 60 * 1000

Min(a, b) == IF a < b THEN a ELSE b
Max(a, b) == IF a > b THEN a ELSE b

(***************************************************************************)
(* Strings are sequences of characters.                                    *)
(***************************************************************************)
Alphabet == {"a", ".", " "}
Whitespace == {" "}

RECURSIVE SeqsUpTo(_, _)
SeqsUpTo(S, n) ==
    IF n = 0 THEN {<<>>}
    ELSE LET shorter == SeqsUpTo(S, n - 1)
         IN  shorter \cup {Append(s, c) : s \in {t \in shorter : Len(t) = n - 1}, c \in S}

\* String.prototype.slice(b, e): a negative index counts from the end
Slice(s, b, e) ==
    LET n    == Len(s)
        from == IF b < 0 THEN Max(n + b, 0) ELSE Min(b, n)
        to   == IF e < 0 THEN Max(n + e, 0) ELSE Min(e, n)
    IN  IF from < to THEN SubSeq(s, from + 1, to) ELSE <<>>

\* String.prototype.lastIndexOf(ch): 0-based, -1 when absent
LastIndexOf(s, ch) ==
    LET hits == {i \in 0..(Len(s) - 1) : s[i + 1] = ch}
    IN  IF hits = {} THEN -1 ELSE CHOOSE i \in hits : \A j \in hits : j <= i

\* String.prototype.trim()
RECURSIVE TrimLeft(_)
TrimLeft(s) ==
    IF s # <<>> /\ Head(s) \in Whitespace THEN TrimLeft(Tail(s)) ELSE s

RECURSIVE TrimRight(_)
TrimRight(s) ==
    IF s # <<>> /\ s[Len(s)] \in Whitespace
    THEN TrimRight(SubSeq(s, 1, Len(s) - 1)) ELSE s

Trim(s) == TrimRight(TrimLeft(s))

SelectSeqLonger(chunks, n) ==
    LET Keep(c) == Len(c) > n IN SelectSeq(chunks, Keep)

(***************************************************************************)
(* chunkText: the body of one iteration of the while loop.                 *)
(***************************************************************************)
WindowEnd(text, start, size) == Min(start + size, Len(text))

\* lastBreak > start + chunkSize * 0.7, in tenths
BreakAccepted(lastBreak, start, size) == 10 * lastBreak > 10 * start + 7 * size

ChunkOfWindow(text, start, size) ==
    LET end       == WindowEnd(text, start, size)
        chunk     == Slice(text, start, end)
        lastBreak == Max(LastIndexOf(chunk, "."),
                         Max(LastIndexOf(chunk, "?"), LastIndexOf(chunk, "!")))
    IN  IF end < Len(text) /\ BreakAccepted(lastBreak, start, size)
        THEN Slice(chunk, 0, lastBreak + 1)
        ELSE chunk

NextStart(text, start, size, overlap) == WindowEnd(text, start, size) - overlap

ChunkParams ==
    {<<c, o>> : c \in 1..MaxChunkSize, o \in 0..(MaxChunkSize - 1)}
        \cup {<<DefaultChunkSize, DefaultOverlap>>}

\* a text of n characters with one sentence terminator, at index at
SentenceAt(n, at) == [i \in 1..n |-> IF i = at + 1 THEN "." ELSE "a"]

\* a document whose windows of 51 trim to 51, 50 and 49 characters
FilterDoc == [i \in 1..151 |-> IF i = 102 THEN " " ELSE "a"]

\* documents with a sentence that ends late in the first window (a call
\* with explicit arguments and a call with the defaults), late in the second
\* window, and at seven tenths of the first window
SampleDocs ==
    {<<SentenceAt(9, 5), 7, 0>>,
     <<SentenceAt(DefaultChunkSize + 1, 750), DefaultChunkSize, DefaultOverlap>>,
     <<SentenceAt(25, 18), 10, 0>>,
     <<SentenceAt(12, 7), 10, 0>>,
     <<FilterDoc, 51, 0>>}

ChunkInputs ==
    {<<t, p[1], p[2]>> :
        t \in SeqsUpTo(Alphabet, MaxTextLen), p \in {q \in ChunkParams : q[2] < q[1]}}
    \cup SampleDocs

ChunkInit ==
    /\ \E in \in ChunkInputs :
          /\ ckText = in[1]
          /\ ckSize = in[2]
          /\ ckOverlap = in[3]
    /\ ckStart = 0
    /\ ckChunks = <<>>
    /\ ckPc = "loop"
    /\ ckResult = <<>>

\* while (start < text.length) { ... chunks.push(chunk.trim()); start = end - overlap; }
ChunkIterate ==
    /\ ckPc = "loop"
    /\ ckStart < Len(ckText)
    /\ Len(ckChunks) < MaxIter
    /\ ckChunks' = Append(ckChunks, Trim(ChunkOfWindow(ckText, ckStart, ckSize)))
    /\ ckStart' = NextStart(ckText, ckStart, ckSize, ckOverlap)
    /\ UNCHANGED <<ckText, ckSize, ckOverlap, ckPc, ckResult>>
    /\ UNCHANGED <<mgrVars, callVars, engVars, appVars>>

\* return chunks.filter(chunk => chunk.length > 50)
ChunkReturn ==
    /\ ckPc = "loop"
    /\ ~(ckStart < Len(ckText))
    /\ ckPc' = "done"
    /\ ckResult' = SelectSeqLonger(ckChunks, MinChunkLength)
    /\ UNCHANGED <<ckText, ckSize, ckOverlap, ckStart, ckChunks>>
    /\ UNCHANGED <<mgrVars, callVars, engVars, appVars>>

NextChunk == ChunkIterate \/ ChunkReturn

(***************************************************************************)
(* Texts handed to the embedding providers.  A text is named by an index   *)
(* into Texts; TextOf gives its characters.                                *)
(***************************************************************************)
RECURSIVE Rep(_, _)
Rep(s, n) == IF n = 0 THEN <<>> ELSE s \o Rep(s, n - 1)

KeyPrefixLen == 100
HashDimensions == 384

CarsDrive == <<"C", "a", "r", "s", " ", "d", "r", "i", "v", "e", " ">>

Texts ==
    << <<>>,                                                      \* 1: ""
       <<"b", "i", "r", "d", "s", " ", "f", "l", "y">>,          \* 2
       Rep(CarsDrive, 5) \o <<"f", "l", "y">>,                    \* 3: 58 chars
       [i \in 1..KeyPrefixLen |-> "a"] \o <<"b">>,               \* 4: 101 chars
       [i \in 1..KeyPrefixLen |-> "a"] \o <<"c">> >>             \* 5: 101 chars

TextIds == 1..Len(Texts)
TextOf(t) == Texts[t]

\* texts that chunkText can return: trimmed and longer than MinChunkLength
ChunkTextIds == {t \in TextIds : Len(TextOf(t)) > MinChunkLength}

CharCodes ==
    [c \in {" ", ".", "C", "a", "b", "c", "d", "e", "f", "g", "i", "l", "n", "o", "p",
            "r", "s", "t", "u", "v", "y"} |->
        CASE c = " " -> 32 [] c = "." -> 46 [] c = "C" -> 67
          [] c = "a" -> 97 [] c = "b" -> 98 [] c = "c" -> 99 [] c = "d" -> 100
          [] c = "e" -> 101 [] c = "f" -> 102 [] c = "g" -> 103 [] c = "i" -> 105
          [] c = "l" -> 108 [] c = "n" -> 110 [] c = "o" -> 111 [] c = "p" -> 112
          [] c = "r" -> 114 [] c = "s" -> 115 [] c = "t" -> 116 [] c = "u" -> 117
          [] c = "v" -> 118 [] c = "y" -> 121]

\* String.prototype.charCodeAt(0)
CharCodeAt(c) == CharCodes[c]

\* String.prototype.toLowerCase()
ToLowerCase(s) == [i \in 1..Len(s) |-> IF s[i] = "C" THEN "c" ELSE s[i]]

\* String.prototype.split(/\s+/): a run of whitespace separates two words;
\* leading or trailing whitespace yields an empty word, '' yields ['']
WordStarts(s) ==
    {i \in 1..Len(s) : s[i] \notin Whitespace /\ (i = 1 \/ s[i - 1] \in Whitespace)}

WordEnd(s, i) ==
    CHOOSE j \in i..Len(s) :
        /\ \A k \in i..j : s[k] \notin Whitespace
        /\ (j = Len(s) \/ s[j + 1] \in Whitespace)

SplitWhitespace(s) ==
    LET starts == WordStarts(s)
        nth(k) == CHOOSE i \in starts : Cardinality({j \in starts : j < i}) = k - 1
        words  == [k \in 1..Cardinality(starts) |-> SubSeq(s, nth(k), WordEnd(s, nth(k)))]
    IN  IF s = <<>> THEN << <<>> >>
        ELSE (IF s[1] \in Whitespace THEN << <<>> >> ELSE <<>>)
             \o words
             \o (IF s[Len(s)] \in Whitespace THEN << <<>> >> ELSE <<>>)

(***************************************************************************)
(* The rolling hash of SimpleEmbeddings: a = ((a << 5) - a) + code;        *)
(* a & a.  A 32-bit value is kept as two 16-bit halves <<hi, lo>> of its   *)
(* two's complement bit pattern.                                           *)
(***************************************************************************)
Half == 65536

HashStep(a, code) ==
    LET lo == 31 * a[2] + code
        hi == 31 * a[1] + (lo \div Half)
    IN  <<hi % Half, lo % Half>>

\* word.split('').reduce(..., 0) over the characters lo..hi, from value a
\* (by halves, the left half first)
RECURSIVE HashRange(_, _, _, _)
HashRange(word, lo, hi, a) ==
    IF lo > hi THEN a
    ELSE IF lo = hi THEN HashStep(a, CharCodeAt(word[lo]))
    ELSE LET mid  == (lo + hi) \div 2
             left == HashRange(word, lo, mid, a)
         IN  IF left \in Nat \X Nat THEN HashRange(word, mid + 1, hi, left) ELSE left

WordHash(word) == HashRange(word, 1, Len(word), <<0, 0>>)

\* Math.abs(hash) of the signed value, again as <<hi, lo>> (2^31 is <<32768, 0>>)
AbsHash(a) ==
    IF a[1] < Half \div 2 THEN a
    ELSE IF a[2] = 0 THEN <<Half - a[1], 0>>
    ELSE <<Half - 1 - a[1], Half - a[2]>>

\* hash % dimensions without Math.abs: the remainder has the sign of hash
BucketOfSigned(word, dims) ==
    LET h == WordHash(word)
        m == AbsHash(h)
        b == (((m[1] % dims) * (Half % dims)) + m[2]) % dims
    IN  IF h[1] < Half \div 2 THEN b ELSE 0 - b

\* Math.abs(hash) % dimensions
BucketOf(word, dims) ==
    LET m == AbsHash(WordHash(word))
    IN  (((m[1] % dims) * (Half % dims)) + m[2]) % dims

(***************************************************************************)
(* Vectors.  A vector of length dim is kept by its components that are not *)
(* 0 (nz, indexed from 0) over a common positive divisor: component i is   *)
(* nz[i] / sqrt(mag2).                                                     *)
(***************************************************************************)
RECURSIVE SumOver(_, _)
SumOver(f, S) ==
    IF S = {} THEN 0
    ELSE LET x == CHOOSE y \in S : TRUE IN f[x] + SumOver(f, S \ {x})

SumSquares(nz) == SumOver([i \in DOMAIN nz |-> nz[i] * nz[i]], DOMAIN nz)

MkVector(dim, nz) == [dim |-> dim, nz |-> nz, mag2 |-> SumSquares(nz)]

\* the bucket counts returned as they are, without the division
SimpleGenerateRaw(text) ==
    LET words   == SplitWhitespace(ToLowerCase(text))
        pos     == [i \in 1..Len(words) |-> BucketOf(words[i], HashDimensions)]
        buckets == {pos[i] : i \in 1..Len(words)}
        count   == [b \in buckets |-> Cardinality({i \in 1..Len(words) : pos[i] = b})]
    IN  [dim |-> HashDimensions, nz |-> count, mag2 |-> 1]

\* SimpleEmbeddings.generateEmbeddings
SimpleGenerate(text) ==
    LET words   == SplitWhitespace(ToLowerCase(text))
        pos     == [i \in 1..Len(words) |-> BucketOf(words[i], HashDimensions)]
        buckets == {pos[i] : i \in 1..Len(words)}
        count   == [b \in buckets |-> Cardinality({i \in 1..Len(words) : pos[i] = b})]
    IN  MkVector(HashDimensions, count)

SimpleVectors == [t \in TextIds |-> SimpleGenerate(TextOf(t))]

(***************************************************************************)
(* Providers.  A remote or local model answers a text with a unit vector   *)
(* of its own dimension; its direction is a fixed function of the text.    *)
(***************************************************************************)
ProviderNames == {"openai", "cohere", "local", "simple"}

ProviderDimensions(p) ==
    CASE p = "openai" -> 1536
      [] p = "cohere" -> 1024
      [] p = "local"  -> 384
      [] p = "simple" -> HashDimensions

ModelDirections ==
    << <<1, 0>>, <<2, 1>>, <<1, 2>>, <<-1, 1>>, <<1, -1>> >>

ModelVector(p, t) ==
    LET d == ModelDirections[t]
    IN  MkVector(ProviderDimensions(p),
                 [i \in {j \in 0..1 : d[j + 1] # 0} |-> d[i + 1]])

\* provider.generateEmbeddings(text) when it resolves
ProviderGenerate(p, t) ==
    IF p = "simple" THEN SimpleVectors[t] ELSE ModelVector(p, t)

\* SimpleEmbeddings has no failing path; the other providers reject on a
\* network error, a non-ok status or a model that cannot be loaded
ProviderCanFail(p) == p # "simple"

(***************************************************************************)
(* EmbeddingsManager.                                                      *)
(***************************************************************************)
NoVector == [dim |-> -1, nz |-> <<>>, mag2 |-> 0]

EmptyCache == <<>>

\* new EmbeddingsManager(provider)
NewManager(p) == [provider |-> p, cache |-> EmptyCache]

\* const cacheKey = `${text.substring(0, 100)}_${text.length}`
CacheKey(t) ==
    <<SubSeq(TextOf(t), 1, Min(KeyPrefixLen, Len(TextOf(t)))), Len(TextOf(t))>>

\* useCache && this.cache.has(cacheKey)
CacheHit(mgr, t, useCache) == useCache /\ CacheKey(t) \in DOMAIN mgr.cache

\* this.cache.get(cacheKey)
CacheGet(mgr, t) == mgr.cache[CacheKey(t)]

\* this.cache.set(cacheKey, embeddings)
CacheSet(cache, t, v) ==
    [k \in DOMAIN cache \cup {CacheKey(t)} |-> IF k = CacheKey(t) THEN v ELSE cache[k]]

\* the try branch after the provider resolved with v
ManagerAfterResolve(mgr, t, useCache, v) ==
    IF useCache THEN [mgr EXCEPT !.cache = CacheSet(mgr.cache, t, v)] ELSE mgr

\* a catch branch that makes the fallback the manager's provider
ManagerAfterRejectSwitch(mgr, t, useCache) == [mgr EXCEPT !.provider = "simple"]

\* the catch branch: neither this.provider nor this.cache is assigned
ManagerAfterReject(mgr, t, useCache) == mgr

\* a catch branch that rethrows: the call ends without a vector
FallbackRethrown(t) == NoVector

\* the catch branch's value: new SimpleEmbeddings().generateEmbeddings(text)
FallbackResult(t) == SimpleVectors[t]

\* getDimensions(), getProviderName()
GetDimensions(mgr) == ProviderDimensions(mgr.provider)
GetProviderName(mgr) == mgr.provider

\* clearCache()
ManagerAfterClear(mgr) == [mgr EXCEPT !.cache = EmptyCache]

(***************************************************************************)
(* Callers of getEmbeddings(text, useCache) on the manager, overlapping at *)
(* the await of the provider.                                              *)
(***************************************************************************)
CallerIds == {1, 2}

\* the texts the callers ask for: '', and two texts with one cache key
CallerTexts == {1, 4, 5}

IdleCall ==
    [pc |-> "idle", mgr |-> 0, text |-> 1, useCache |-> FALSE, result |-> NoVector,
     invoked |-> FALSE, outcome |-> "none", expect |-> NoVector,
     preClear |-> FALSE, staleHit |-> FALSE]

MgrIdle ==
    /\ managers = <<>>
    /\ current = 0

CallsIdle ==
    /\ calls = [c \in CallerIds |-> IdleCall]
    /\ settled = [t \in TextIds |-> NoVector]
    /\ stale = {}

MgrInit ==
    /\ \E p \in ProviderNames : managers = <<NewManager(p)>>
    /\ current = 1

\* getEmbeddings up to the cache lookup and, on a miss, the provider call
GetStart(c, t, useCache) ==
    /\ calls[c].pc = "idle"
    /\ LET mgr == managers[current]
           hit == CacheHit(mgr, t, useCache)
       IN  calls' = [calls EXCEPT ![c] =
                [pc       |-> IF hit THEN "done" ELSE "await",
                 mgr      |-> current,
                 text     |-> t,
                 useCache |-> useCache,
                 result   |-> IF hit THEN CacheGet(mgr, t) ELSE NoVector,
                 invoked  |-> ~hit,
                 outcome  |-> IF hit THEN "hit" ELSE "pending",
                 expect   |-> IF useCache THEN settled[t] ELSE NoVector,
                 preClear |-> FALSE,
                 staleHit |-> hit /\ CacheKey(t) \in stale]]
    /\ UNCHANGED <<chunkVars, appVars, mgrVars, settled, stale, engVars>>

\* await this.provider.generateEmbeddings(text) resolves
GetResolve(c) ==
    /\ calls[c].pc = "await"
    /\ LET call == calls[c]
           mgr  == managers[call.mgr]
           v    == ProviderGenerate(mgr.provider, call.text)
       IN  /\ managers' = [managers EXCEPT ![call.mgr] =
                    ManagerAfterResolve(mgr, call.text, call.useCache, v)]
           /\ calls' = [calls EXCEPT ![c].pc = "done", ![c].result = v,
                                     ![c].outcome = "provider"]
           /\ settled' = IF call.useCache
                         THEN [settled EXCEPT ![call.text] = v] ELSE settled
           /\ stale' = IF ~call.useCache THEN stale
                       ELSE IF call.preClear THEN stale \cup {CacheKey(call.text)}
                       ELSE stale \ {CacheKey(call.text)}
    /\ UNCHANGED <<chunkVars, appVars, current, engVars>>

\* await this.provider.generateEmbeddings(text) rejects: the catch branch
GetReject(c) ==
    /\ calls[c].pc = "await"
    /\ LET call == calls[c]
           mgr  == managers[call.mgr]
       IN  /\ ProviderCanFail(mgr.provider)
           /\ managers' = [managers EXCEPT ![call.mgr] =
                    ManagerAfterReject(mgr, call.text, call.useCache)]
           /\ calls' = [calls EXCEPT ![c].pc = "done",
                                     ![c].result = FallbackResult(call.text),
                                     ![c].outcome = "fallback"]
    /\ UNCHANGED <<chunkVars, appVars, current, settled, stale, engVars>>

\* the caller takes the value of the promise
GetReturn(c) ==
    /\ calls[c].pc = "done"
    /\ calls' = [calls EXCEPT ![c] = IdleCall]
    /\ UNCHANGED <<chunkVars, appVars, mgrVars, settled, stale, engVars>>

\* clearCache()
\* a call that awaits the provider of the current manager, not yet marked
InFlight(c) ==
    calls[c].pc = "await" /\ calls[c].mgr = current /\ ~calls[c].preClear

ClearCache ==
    /\ managers[current].cache # EmptyCache \/ \E c \in CallerIds : InFlight(c)
    /\ managers' = [managers EXCEPT ![current] = ManagerAfterClear(managers[current])]
    /\ settled' = [t \in TextIds |-> NoVector]
    /\ stale' = {}
    /\ calls' = [c \in CallerIds |->
                    IF InFlight(c) THEN [calls[c] EXCEPT !.preClear = TRUE] ELSE calls[c]]
    /\ UNCHANGED <<chunkVars, appVars, current, engVars>>

NextMgr ==
    \/ \E c \in CallerIds, t \in CallerTexts, u \in BOOLEAN : GetStart(c, t, u)
    \/ \E c \in CallerIds : GetResolve(c)
    \/ \E c \in CallerIds : GetReject(c)
    \/ \E c \in CallerIds : GetReturn(c)
    \/ ClearCache

(***************************************************************************)
(* calculateCosineSimilarity.  The value D / sqrt(Na * Nb) of two vectors  *)
(* with integer dot product D and squared norms Na, Nb of their nz parts   *)
(* (the divisors mag2 cancel) is kept exactly, as its sign and its square  *)
(* num / den.                                                              *)
(***************************************************************************)
ZeroSimilarity == [sgn |-> 0, num |-> 0, den |-> 1]

DotProduct(a, b) ==
    LET common == DOMAIN a.nz \cap DOMAIN b.nz
    IN  SumOver([i \in common |-> a.nz[i] * b.nz[i]], common)

CalculateCosineSimilarity(a, b) ==
    IF a.dim # b.dim THEN ZeroSimilarity
    ELSE LET d  == DotProduct(a, b)
             na == SumSquares(a.nz)
             nb == SumSquares(b.nz)
         IN  IF na = 0 \/ nb = 0 \/ d = 0 THEN ZeroSimilarity
             ELSE [sgn |-> IF d > 0 THEN 1 ELSE -1, num |-> d * d, den |-> na * nb]

\* x >= y on similarity values
SimGE(x, y) ==
    IF x.sgn # y.sgn THEN x.sgn > y.sgn
    ELSE IF x.sgn = 0 THEN TRUE
    ELSE IF x.sgn > 0 THEN x.num * y.den >= y.num * x.den
    ELSE x.num * y.den <= y.num * x.den

(***************************************************************************)
(* The chunk repository db.documentChunks and the documents.               *)
(***************************************************************************)
MaxDocChunks == 2    \* chunks chunkText returns for one document
MaxLimit == 2        \* searchChunks is called with every limit in 0..MaxLimit
MaxOps == 3          \* calls made to the engine over a run

\* no run adds more chunk records than this
MaxRows == MaxOps * MaxDocChunks

DocIds == {1, 2}
RowIds == 1..MaxRows

\* chunkText(document.content) is taken as given: a call of processDocument
\* has the list of chunk strings as its input, and editing the document
\* changes the list.  (ChunkSpec has the loop of chunkText itself.)
ChunkBase == << <<3, 4, 5>>, <<5>> >>

DocChunkLists(d) ==
    {SubSeq(ChunkBase[d], 1, n) :
        n \in {Min(MaxDocChunks, Len(ChunkBase[d]))} \cup (IF d = 2 THEN {0} ELSE {})}

DocumentTitle(d) == IF d \in DocIds THEN <<"doc", d>> ELSE <<"Unknown Document">>

\* a chunk record stored without embeddings (DocumentChunk.embeddings is
\* optional) whose document is no longer in db.userDocuments
OrphanRow ==
    [id |-> MaxRows + 1, documentId |-> 0, content |-> 3,
     embeddings |-> NoVector, chunkIndex |-> 0]

FreshId == CHOOSE i \in RowIds : i \notin {r.id : r \in rows} /\
                \A j \in RowIds : j \notin {r.id : r \in rows} => i <= j

RowsOf(d) == {r \in rows : r.documentId = d}

(***************************************************************************)
(* initializeEmbeddings and generateEmbeddings.                            *)
(***************************************************************************)
EngineProviders == {"openai", "simple"}

\* initializeEmbeddings: createEmbeddingsManager throws without an API key
\* (openai, cohere) or when the local model cannot be loaded; the catch
\* branch installs a 'simple' manager
InstalledProvider(p, created) == IF created \/ p = "simple" THEN p ELSE "simple"

InitializeEmbeddings(p, created) ==
    /\ ops < MaxOps
    /\ managers' = Append(managers, NewManager(InstalledProvider(p, created)))
    /\ current' = Len(managers) + 1
    /\ ops' = ops + 1
    /\ UNCHANGED <<chunkVars, appVars, callVars, rows, pd, sr>>

\* generateEmbeddings(text) up to the provider call, for a process record
\* x at pc "gen": without a manager it first awaits initializeEmbeddings
GenBegin(x, t) ==
    IF current = 0 THEN [x EXCEPT !.pc = "lazy"]
    ELSE IF CacheHit(managers[current], t, TRUE)
         THEN [x EXCEPT !.pc = "got", !.emb = CacheGet(managers[current], t)]
         ELSE [x EXCEPT !.pc = "await", !.mgr = current]

\* getEmbeddings on manager m after the lazy initializeEmbeddings('simple')
GenAfterInit(x, t, m) == [x EXCEPT !.pc = "await", !.mgr = m]

(***************************************************************************)
(* processDocument.                                                        *)
(***************************************************************************)
PdIds == {1, 2}

\* Observation fields of a call: via is the manager whose getEmbeddings it
\* has called (0 none yet, -1 more than one); called tells that a provider
\* was invoked for it; again tells that it repeats, for the same content,
\* the call made just before it, and before holds the vectors that call
\* left stored, by chunkIndex; providers holds the provider of every manager
\* whose getEmbeddings this call has called.
IdlePd ==
    [pc |-> "idle", doc |-> 1, chunks |-> <<>>, i |-> 0, emb |-> NoVector, mgr |-> 0,
     via |-> 0, called |-> FALSE, again |-> FALSE, before |-> <<>>, providers |-> {}]

\* no call in progress: never called, or the promise has settled
PdEnded == {"idle", "done", "failed"}

\* the text of chunks[i]
PdText(x) == x.chunks[x.i + 1]

\* the call in slot p ran alone, has returned, and was for this content
PdRepeats(p, d, cs) ==
    /\ pd[p].pc = "done"
    /\ pd[p].doc = d
    /\ pd[p].chunks = cs
    /\ \A o \in PdIds \ {p} : pd[o].pc = "idle"

\* the vectors stored for document d, by chunkIndex 0..n-1
StoredVectors(d, n) ==
    [k \in 1..n |-> (CHOOSE r \in RowsOf(d) : r.chunkIndex = k - 1).embeddings]

\* the call x has getEmbeddings of manager m called for it
PdNote(x, m, provider) ==
    [x EXCEPT !.via = IF @ = 0 \/ @ = m THEN m ELSE -1,
              !.providers = @ \cup {provider}]

\* const chunks = chunkText(document.content), then the delete is awaited
PdStart(p, d, cs) ==
    /\ pd[p].pc \in PdEnded
    /\ \A o \in PdIds : o < p => pd[o].pc \notin PdEnded
    /\ ops < MaxOps
    /\ pd' = [pd EXCEPT ![p] =
                 IF PdRepeats(p, d, cs)
                 THEN [IdlePd EXCEPT !.pc = "delete", !.doc = d, !.chunks = cs,
                                     !.via = pd[p].via, !.again = TRUE,
                                     !.before = StoredVectors(d, Len(cs))]
                 ELSE [IdlePd EXCEPT !.pc = "delete", !.doc = d, !.chunks = cs]]
    /\ ops' = ops + 1
    /\ UNCHANGED <<chunkVars, appVars, mgrVars, callVars, rows, sr>>

\* the loop from its head to the next await: past the last chunk the call
\* returns, otherwise generateEmbeddings(chunks[i]) is called
PdLoop(x) ==
    IF x.i < Len(x.chunks)
    THEN LET y == GenBegin(x, PdText(x))
         IN  IF y.pc = "lazy" THEN y ELSE PdNote(y, current, managers[current].provider)
    ELSE [x EXCEPT !.pc = "done"]

\* await db.documentChunks.where('documentId').equals(document.id).delete()
PdDelete(p) ==
    /\ pd[p].pc = "delete"
    /\ rows' = rows \ RowsOf(pd[p].doc)
    /\ pd' = [pd EXCEPT ![p] = PdLoop(pd[p])]
    /\ UNCHANGED <<chunkVars, appVars, mgrVars, callVars, sr, ops>>

\* the delete rejects: catch, console.error, throw
PdDeleteFail(p) ==
    /\ pd[p].pc = "delete"
    /\ pd' = [pd EXCEPT ![p].pc = "failed"]
    /\ UNCHANGED <<chunkVars, appVars, mgrVars, callVars, rows, sr, ops>>

\* const embeddings = await generateEmbeddings(chunk), without a manager
PdLazyInit(p) ==
    /\ pd[p].pc = "lazy"
    /\ managers' = Append(managers, NewManager("simple"))
    /\ current' = Len(managers) + 1
    /\ pd' = [pd EXCEPT ![p] = PdNote(GenAfterInit(pd[p], PdText(pd[p]), Len(managers) + 1),
                                      Len(managers) + 1, "simple")]
    /\ UNCHANGED <<chunkVars, appVars, callVars, rows, sr, ops>>

PdResolve(p) ==
    /\ pd[p].pc = "await"
    /\ LET x   == pd[p]
           mgr == managers[x.mgr]
           v   == ProviderGenerate(mgr.provider, PdText(x))
       IN  /\ managers' = [managers EXCEPT ![x.mgr] =
                              ManagerAfterResolve(mgr, PdText(x), TRUE, v)]
           /\ pd' = [pd EXCEPT ![p].pc = "got", ![p].emb = v, ![p].mgr = 0,
                               ![p].called = TRUE]
    /\ UNCHANGED <<chunkVars, appVars, current, callVars, rows, sr, ops>>

PdReject(p) ==
    /\ pd[p].pc = "await"
    /\ LET x   == pd[p]
           mgr == managers[x.mgr]
       IN  /\ ProviderCanFail(mgr.provider)
           /\ managers' = [managers EXCEPT ![x.mgr] =
                              ManagerAfterReject(mgr, PdText(x), TRUE)]
           /\ pd' = [pd EXCEPT ![p].pc = "got", ![p].emb = FallbackResult(PdText(x)),
                               ![p].mgr = 0, ![p].called = TRUE]
    /\ UNCHANGED <<chunkVars, appVars, current, callVars, rows, sr, ops>>

\* the record processDocument adds for chunks[i]
NewRow(x, id) ==
    [id |-> id, documentId |-> x.doc, content |-> PdText(x),
     embeddings |-> x.emb, chunkIndex |-> x.i]

\* await db.documentChunks.add({...}); i++
PdAdd(p) ==
    /\ pd[p].pc = "got"
    /\ Cardinality(rows \ {OrphanRow}) < MaxRows
    /\ rows' = rows \cup {NewRow(pd[p], FreshId)}
    /\ pd' = [pd EXCEPT ![p] = PdLoop([pd[p] EXCEPT !.i = @ + 1, !.emb = NoVector])]
    /\ UNCHANGED <<chunkVars, appVars, mgrVars, callVars, sr, ops>>

\* the add rejects: catch, console.error, throw
PdAddFail(p) ==
    /\ pd[p].pc = "got"
    /\ pd' = [pd EXCEPT ![p].pc = "failed", ![p].emb = NoVector]
    /\ UNCHANGED <<chunkVars, appVars, mgrVars, callVars, rows, sr, ops>>

(***************************************************************************)
(* searchChunks and getRelevantContext.                                    *)
(***************************************************************************)
QueryTexts == {2}

\* pc "searched": searchChunks has returned result to getRelevantContext
IdleSearch ==
    [pc |-> "idle", query |-> 2, limit |-> 0, emb |-> NoVector, mgr |-> 0,
     result |-> <<>>, dbFailed |-> FALSE, outcome |-> "none", context |-> <<>>,
     docsFailed |-> FALSE]

SearchEnded == {"idle", "done"}

\* every order db.documentChunks.toArray() can yield the records in (by
\* primary key, a random UUID)
RECURSIVE Orderings(_)
Orderings(S) ==
    IF S = {} THEN {<<>>}
    ELSE UNION {{<<r>> \o o : o \in Orderings(S \ {r})} : r \in S}

\* similarity: chunk.embeddings ? calculateCosineSimilarity(...) : 0
Similarity(queryEmbedding, row) ==
    IF row.embeddings # NoVector
    THEN CalculateCosineSimilarity(queryEmbedding, row.embeddings)
    ELSE ZeroSimilarity

\* the comparator with its operands exchanged, a.similarity - b.similarity
KeepsOrderAscending(q, a, b) == SimGE(Similarity(q, b), Similarity(q, a))

\* the comparator (a, b) => b.similarity - a.similarity is <= 0: a stays first
KeepsOrder(q, a, b) == SimGE(Similarity(q, a), Similarity(q, b))

\* Array.prototype.sort (stable): insert each record after the records it
\* does not have to precede
RECURSIVE InsertSorted(_, _, _)
InsertSorted(q, sorted, r) ==
    IF sorted = <<>> THEN <<r>>
    ELSE IF KeepsOrder(q, sorted[Len(sorted)], r) THEN Append(sorted, r)
    ELSE Append(InsertSorted(q, SubSeq(sorted, 1, Len(sorted) - 1), r),
                sorted[Len(sorted)])

RECURSIVE SortBySimilarity(_, _)
SortBySimilarity(q, all) ==
    IF all = <<>> THEN <<>>
    ELSE InsertSorted(q, SortBySimilarity(q, SubSeq(all, 1, Len(all) - 1)), all[Len(all)])

\* .slice(0, limit)
TopSlice(sorted, limit) == SubSeq(sorted, 1, Min(limit, Len(sorted)))

\* the value searchChunks returns for the records allChunks
RankedChunks(q, allChunks, limit) == TopSlice(SortBySimilarity(q, allChunks), limit)

\* the catch branch of searchChunks: console.error, return []
SearchCaught(x) == [x EXCEPT !.result = <<>>, !.outcome = "returned"]

\* the catch branch of getRelevantContext: console.error, return ''
ContextCaught(x) == [x EXCEPT !.context = <<>>, !.outcome = "returned"]

\* contextParts that leaves out the chunks whose document is not found
ContextPartsOfKnown(result) ==
    LET Known(chunk) == chunk.documentId \in DocIds
        known == SelectSeq(result, Known)
    IN  [i \in 1..Len(known) |->
            [title |-> DocumentTitle(known[i].documentId), content |-> known[i].content]]

\* contextParts: title (document?.title || 'Unknown Document') and content
\* of every chunk
ContextParts(result) ==
    [i \in 1..Len(result) |->
        [title |-> DocumentTitle(result[i].documentId), content |-> result[i].content]]

\* `[From: ${title}]\n${chunk.content}`, as a sequence of string pieces
ContextBlock(part) == <<"[From: ", part.title, "]\n", part.content>>

\* contextParts.join('\n\n')
RECURSIVE ContextJoin(_)
ContextJoin(parts) ==
    IF parts = <<>> THEN <<>>
    ELSE IF Len(parts) = 1 THEN ContextBlock(parts[1])
    ELSE ContextJoin(SubSeq(parts, 1, Len(parts) - 1))
         \o <<"\n\n">> \o ContextBlock(parts[Len(parts)])

\* getRelevantContext(query, maxChunks) calls searchChunks(query, maxChunks),
\* which runs to the await inside generateEmbeddings(query)
SearchStart(q, k) ==
    /\ sr.pc \in SearchEnded
    /\ ops < MaxOps
    /\ sr' = GenBegin([IdleSearch EXCEPT !.query = q, !.limit = k], q)
    /\ ops' = ops + 1
    /\ UNCHANGED <<chunkVars, appVars, mgrVars, callVars, rows, pd>>

\* const queryEmbedding = await generateEmbeddings(query), without a manager
SearchLazyInit ==
    /\ sr.pc = "lazy"
    /\ managers' = Append(managers, NewManager("simple"))
    /\ current' = Len(managers) + 1
    /\ sr' = GenAfterInit(sr, sr.query, Len(managers) + 1)
    /\ UNCHANGED <<chunkVars, appVars, callVars, rows, pd, ops>>

SearchResolve ==
    /\ sr.pc = "await"
    /\ LET mgr == managers[sr.mgr]
           v   == ProviderGenerate(mgr.provider, sr.query)
       IN  /\ managers' = [managers EXCEPT ![sr.mgr] =
                              ManagerAfterResolve(mgr, sr.query, TRUE, v)]
           /\ sr' = [sr EXCEPT !.pc = "got", !.emb = v, !.mgr = 0]
    /\ UNCHANGED <<chunkVars, appVars, current, callVars, rows, pd, ops>>

SearchReject ==
    /\ sr.pc = "await"
    /\ LET mgr == managers[sr.mgr]
       IN  /\ ProviderCanFail(mgr.provider)
           /\ managers' = [managers EXCEPT ![sr.mgr] =
                              ManagerAfterReject(mgr, sr.query, TRUE)]
           /\ sr' = [sr EXCEPT !.pc = "got", !.emb = FallbackResult(sr.query), !.mgr = 0]
    /\ UNCHANGED <<chunkVars, appVars, current, callVars, rows, pd, ops>>

\* const allChunks = await db.documentChunks.toArray(); score, sort, slice
SearchScan ==
    /\ sr.pc = "got"
    /\ \E allChunks \in Orderings(rows) :
          sr' = [sr EXCEPT !.pc = "searched",
                           !.result = RankedChunks(sr.emb, allChunks, sr.limit),
                           !.outcome = "returned"]
    /\ UNCHANGED <<chunkVars, appVars, mgrVars, callVars, rows, pd, ops>>

\* toArray() rejects: the catch branch of searchChunks
SearchScanFail ==
    /\ sr.pc = "got"
    /\ sr' = [SearchCaught(sr) EXCEPT !.pc = "searched", !.dbFailed = TRUE]
    /\ UNCHANGED <<chunkVars, appVars, mgrVars, callVars, rows, pd, ops>>

\* getRelevantContext: if (relevantChunks.length === 0) return ''
ContextEmpty ==
    /\ sr.pc = "searched"
    /\ Len(sr.result) = 0
    /\ sr' = [sr EXCEPT !.pc = "done", !.context = <<>>]
    /\ UNCHANGED <<chunkVars, appVars, mgrVars, callVars, rows, pd, ops>>

\* getRelevantContext: the titles are read and the context is built
ContextBuild ==
    /\ sr.pc = "searched"
    /\ Len(sr.result) > 0
    /\ sr' = [sr EXCEPT !.pc = "done", !.context = ContextJoin(ContextParts(sr.result))]
    /\ UNCHANGED <<chunkVars, appVars, mgrVars, callVars, rows, pd, ops>>

\* db.userDocuments...toArray() rejects: the catch branch of getRelevantContext
ContextFail ==
    /\ sr.pc = "searched"
    /\ Len(sr.result) > 0
    /\ sr' = [ContextCaught(sr) EXCEPT !.pc = "done", !.docsFailed = TRUE]
    /\ UNCHANGED <<chunkVars, appVars, mgrVars, callVars, rows, pd, ops>>

EngineIdle ==
    /\ rows = {}
    /\ pd = [p \in PdIds |-> IdlePd]
    /\ sr = IdleSearch
    /\ ops = 0

EngineInit ==
    /\ managers = <<>>
    /\ current = 0
    /\ rows \in {{}, {OrphanRow}}
    /\ pd = [p \in PdIds |-> IdlePd]
    /\ sr = IdleSearch
    /\ ops = 0

\* searchChunks and getRelevantContext alone
NextSearch ==
    \/ \E q \in QueryTexts, k \in 0..MaxLimit : SearchStart(q, k)
    \/ SearchLazyInit
    \/ SearchResolve
    \/ SearchReject
    \/ SearchScan
    \/ SearchScanFail
    \/ ContextEmpty
    \/ ContextBuild
    \/ ContextFail

NextEngine ==
    \/ \E p \in EngineProviders, created \in BOOLEAN : InitializeEmbeddings(p, created)
    \/ \E p \in PdIds, d \in DocIds : \E cs \in DocChunkLists(d) : PdStart(p, d, cs)
    \/ \E p \in PdIds : PdDelete(p)
    \/ \E p \in PdIds : PdDeleteFail(p)
    \/ \E p \in PdIds : PdLazyInit(p)
    \/ \E p \in PdIds : PdResolve(p)
    \/ \E p \in PdIds : PdReject(p)
    \/ \E p \in PdIds : PdAdd(p)
    \/ \E p \in PdIds : PdAddFail(p)
    \/ NextSearch

(***************************************************************************)
(* SimpleEmbeddings.generateEmbeddings called on texts over a small        *)
(* alphabet.                                                               *)
(***************************************************************************)
MaxHashLen == 3      \* the texts hashed have up to MaxHashLen characters

HashAlphabet == {"a", "b", "C", " "}

\* a word whose hash is -2^31
MinHashWord ==
    <<"p", "o", "l", "y", "g", "e", "n", "e", "l", "u", "b", "r", "i", "c", "a", "n", "t", "s">>

HashTexts ==
    SeqsUpTo(HashAlphabet, MaxHashLen) \cup {TextOf(t) : t \in TextIds}
        \cup {MinHashWord, <<"a", " ">> \o MinHashWord}

IdleHash == [pc |-> "idle", text |-> <<>>, result |-> NoVector]

SimpleCall(text) ==
    /\ hs.pc = "idle"
    /\ cq.pc = "idle"
    /\ hs' = [pc |-> "done", text |-> text, result |-> SimpleGenerate(text)]
    /\ UNCHANGED <<chunkVars, mgrVars, callVars, engVars, storeVars, wfVars, svcVars, cq>>

\* the caller takes the vector
SimpleReturn ==
    /\ hs.pc = "done"
    /\ hs' = IdleHash
    /\ UNCHANGED <<chunkVars, mgrVars, callVars, engVars, storeVars, wfVars, svcVars, cq>>

(***************************************************************************)
(* calculateCosineSimilarity on arrays given component by component.  A    *)
(* component is a small integer or +-Huge, a double whose square is beyond *)
(* the largest double (1e200).  A double is [k |-> "fin", h, v], the value *)
(* h * Huge + v where v is absorbed when h # 0, or [k |-> "inf", s] for    *)
(* +-Infinity, or [k |-> "nan"].  Rounding of sqrt, * and / on finite      *)
(* values is not modelled: finite results are exact.                       *)
(***************************************************************************)
MaxVecLen == 2       \* the arrays have up to MaxVecLen components
MaxComp == 1         \* integer components are in -MaxComp..MaxComp

Fin(h, v) == [k |-> "fin", h |-> h, v |-> IF h # 0 THEN 0 ELSE v]
Inf(s) == [k |-> "inf", s |-> s]
NaN == [k |-> "nan"]

Sign(n) == IF n > 0 THEN 1 ELSE IF n < 0 THEN -1 ELSE 0

Components == {Fin(0, n) : n \in -MaxComp..MaxComp} \cup {Fin(1, 0), Fin(-1, 0)}

Arrays == SeqsUpTo(Components, MaxVecLen)

\* x * y for two components
Mul(x, y) ==
    IF x.h # 0 /\ y.h # 0 THEN Inf(Sign(x.h) * Sign(y.h))
    ELSE Fin(x.h * y.v + y.h * x.v, x.v * y.v)

\* x + y
Add(x, y) ==
    IF x.k = "nan" \/ y.k = "nan" THEN NaN
    ELSE IF x.k = "inf" /\ y.k = "inf" THEN (IF x.s = y.s THEN x ELSE NaN)
    ELSE IF x.k = "inf" THEN x
    ELSE IF y.k = "inf" THEN y
    ELSE Fin(x.h + y.h, x.v + y.v)

\* the value of an accumulator after the loop over i = 0..n-1
RECURSIVE Accumulate(_, _, _)
Accumulate(a, b, n) ==
    IF n = 0 THEN Fin(0, 0) ELSE Add(Accumulate(a, b, n - 1), Mul(a[n], b[n]))

IsZero(x) == x.k = "fin" /\ x.h = 0 /\ x.v = 0

\* a finite result is kept as its sign and its square num / den
Ratio(sgn, num, den) == [k |-> "num", sgn |-> sgn, num |-> num, den |-> den]
ZeroRatio == Ratio(0, 0, 1)

\* dotProduct / (Math.sqrt(normA) * Math.sqrt(normB))
CosineQuotient(dot, normA, normB) ==
    IF dot.k = "nan" THEN NaN
    ELSE IF normA.k = "inf" \/ normB.k = "inf"
         THEN (IF dot.k = "inf" THEN NaN ELSE ZeroRatio)
    ELSE IF dot.v = 0 THEN ZeroRatio
    ELSE Ratio(Sign(dot.v), dot.v * dot.v, normA.v * normB.v)

\* the same function without the test of line 70: 0 / 0 is NaN
CosineOfArraysUnguarded(vecA, vecB) ==
    IF Len(vecA) # Len(vecB) THEN ZeroRatio
    ELSE LET dotProduct == Accumulate(vecA, vecB, Len(vecA))
             normA      == Accumulate(vecA, vecA, Len(vecA))
             normB      == Accumulate(vecB, vecB, Len(vecB))
         IN  IF IsZero(normA) \/ IsZero(normB) THEN NaN
             ELSE CosineQuotient(dotProduct, normA, normB)

CosineOfArrays(vecA, vecB) ==
    IF Len(vecA) # Len(vecB) THEN ZeroRatio
    ELSE LET dotProduct == Accumulate(vecA, vecB, Len(vecA))
             normA      == Accumulate(vecA, vecA, Len(vecA))
             normB      == Accumulate(vecB, vecB, Len(vecB))
         IN  IF IsZero(normA) \/ IsZero(normB) THEN ZeroRatio
             ELSE CosineQuotient(dotProduct, normA, normB)

IdleCosine == [pc |-> "idle", a |-> <<>>, b |-> <<>>, ab |-> ZeroRatio, ba |-> ZeroRatio]

\* calculateCosineSimilarity(a, b) and calculateCosineSimilarity(b, a)
CosineCall(a, b) ==
    /\ cq.pc = "idle"
    /\ hs.pc = "idle"
    /\ cq' = [pc |-> "done", a |-> a, b |-> b,
              ab |-> CosineOfArrays(a, b), ba |-> CosineOfArrays(b, a)]
    /\ UNCHANGED <<chunkVars, mgrVars, callVars, engVars, storeVars, wfVars, svcVars, hs>>

\* the caller takes the two values
CosineReturn ==
    /\ cq.pc = "done"
    /\ cq' = IdleCosine
    /\ UNCHANGED <<chunkVars, mgrVars, callVars, engVars, storeVars, wfVars, svcVars, hs>>

FnIdle ==
    /\ hs = IdleHash
    /\ cq = IdleCosine

NextFn ==
    \/ \E text \in HashTexts : SimpleCall(text)
    \/ SimpleReturn
    \/ \E a, b \in Arrays : CosineCall(a, b)
    \/ CosineReturn

(***************************************************************************)
(* The workflow manager: WORKFLOW_TEMPLATES, createWorkflowFromTemplate    *)
(* and executeWorkflow.                                                    *)
(***************************************************************************)
\* initializeDefaultAgents stores each default agent under
\* id: crypto.randomUUID()
\* (written here as a string that is no agentId of a template)
DefaultAgents == {"uuid-1", "uuid-2", "uuid-3", "uuid-4"}

\* the agentId values of the template steps
NamedAgents == {"research-assistant", "writing-coach", "code-assistant", "creative-partner"}

\* WORKFLOW_TEMPLATES: per step the agentId and whether the inputTemplate
\* holds {previous_output}
TemplateStep(agentId, usesPrevious) == [agentId |-> agentId, usesPrevious |-> usesPrevious]

WorkflowTemplates ==
    [t \in {"research-write", "code-review", "creative-brainstorm"} |->
        CASE t = "research-write" ->
                << TemplateStep("research-assistant", FALSE), TemplateStep("writing-coach", TRUE) >>
          [] t = "code-review" ->
                << TemplateStep("code-assistant", FALSE), TemplateStep("code-assistant", TRUE) >>
          [] t = "creative-brainstorm" ->
                << TemplateStep("creative-partner", FALSE), TemplateStep("creative-partner", TRUE) >>]

\* pc: "none" no workflow, "created", "get" awaiting db.agents.get, "chat"
\* awaiting createChatCompletion, "returned" executeWorkflow has returned.
\* failure (observation): what made a step fail in the current call;
\* runs: the executeWorkflow calls made on the workflow; before: the status
\* of each step when the current call was made; started: the steps the
\* current call has set 'running', in that order
NoWorkflow ==
    [pc |-> "none", template |-> "research-write", steps |-> <<>>, status |-> "draft",
     i |-> 0, previousOutput |-> "", failure |-> "none",
     runs |-> 0, before |-> <<>>, started |-> <<>>]

\* the steps createWorkflowFromTemplate builds
NewSteps(t) ==
    [k \in 1..Len(WorkflowTemplates[t]) |->
        [agentId |-> WorkflowTemplates[t][k].agentId,
         usesPrevious |-> WorkflowTemplates[t][k].usesPrevious,
         status |-> "pending", output |-> "", sentPrevious |-> FALSE, error |-> ""]]

CreateWorkflowFromTemplate(t) ==
    /\ wf.pc \in {"none", "returned"}
    /\ wf' = [NoWorkflow EXCEPT !.pc = "created", !.template = t, !.steps = NewSteps(t),
                                !.status = "active"]
    /\ UNCHANGED <<chunkVars, mgrVars, callVars, engVars, storeVars, fnVars, svcVars, agents>>

\* after the loop: if (workflow.steps.every(step => step.status === 'completed'))
WorkflowReturn(x) ==
    [x EXCEPT !.pc = "returned",
              !.status = IF \A k \in 1..Len(x.steps) : x.steps[k].status = "completed"
                         THEN "completed" ELSE @]

\* the for loop from its head to the next await: step.status = 'running' and
\* db.agents.get(step.agentId) is awaited, or the loop is over
WorkflowLoop(x) ==
    IF x.i <= Len(x.steps)
    THEN [x EXCEPT !.pc = "get", !.steps[x.i].status = "running",
                   !.started = Append(@, x.i)]
    ELSE WorkflowReturn(x)

\* a catch branch without the break: the loop goes on with the next step
WorkflowCaughtNoBreak(x, error, failure) ==
    WorkflowLoop([x EXCEPT !.steps[x.i].status = "failed", !.steps[x.i].error = error,
                           !.status = "paused", !.failure = failure, !.i = @ + 1])

\* the catch branch: the step failed, the workflow is paused, break
WorkflowCaught(x, error, failure) ==
    WorkflowReturn([x EXCEPT !.steps[x.i].status = "failed", !.steps[x.i].error = error,
                             !.status = "paused", !.failure = failure])

\* executeWorkflow(workflowId, apiKey) on the workflow of the map, executed
\* before or not; a call is made once the previous one has returned
ExecuteWorkflow ==
    /\ wf.pc \in {"created", "returned"}
    /\ wf.runs < MaxRuns
    /\ wf' = WorkflowLoop([wf EXCEPT !.i = 1, !.previousOutput = "", !.failure = "none",
                                     !.runs = @ + 1, !.started = <<>>,
                                     !.before = [k \in 1..Len(wf.steps) |-> wf.steps[k].status]])
    /\ UNCHANGED <<chunkVars, mgrVars, callVars, engVars, storeVars, fnVars, svcVars, agents>>

\* db.agents.get resolves with the agent: createChatCompletion is awaited
\* with the input, {previous_output} replaced when previousOutput is not ''
AgentFound ==
    /\ wf.pc = "get"
    /\ wf.steps[wf.i].agentId \in agents
    /\ wf' = [wf EXCEPT !.pc = "chat",
                        !.steps[wf.i].sentPrevious =
                            (wf.previousOutput # "" /\ wf.steps[wf.i].usesPrevious)]
    /\ UNCHANGED <<chunkVars, mgrVars, callVars, engVars, storeVars, fnVars, svcVars, agents>>

\* db.agents.get resolves with undefined: throw new Error('Agent ... not found')
AgentMissing ==
    /\ wf.pc = "get"
    /\ wf.steps[wf.i].agentId \notin agents
    /\ wf' = WorkflowCaught(wf, "Agent not found", "agent")
    /\ UNCHANGED <<chunkVars, mgrVars, callVars, engVars, storeVars, fnVars, svcVars, agents>>

\* db.agents.get rejects
AgentReadFail ==
    /\ wf.pc = "get"
    /\ wf' = WorkflowCaught(wf, "db", "db")
    /\ UNCHANGED <<chunkVars, mgrVars, callVars, engVars, storeVars, fnVars, svcVars, agents>>

\* createChatCompletion resolves: step.output = content || '', the step is
\* completed, previousOutput = step.output, next step
ChatResolve(content) ==
    /\ wf.pc = "chat"
    /\ wf' = WorkflowLoop([wf EXCEPT !.steps[wf.i].output = content,
                                     !.steps[wf.i].status = "completed",
                                     !.previousOutput = content,
                                     !.i = @ + 1])
    /\ UNCHANGED <<chunkVars, mgrVars, callVars, engVars, storeVars, fnVars, svcVars, agents>>

\* createChatCompletion rejects
ChatReject ==
    /\ wf.pc = "chat"
    /\ wf' = WorkflowCaught(wf, "api", "api")
    /\ UNCHANGED <<chunkVars, mgrVars, callVars, engVars, storeVars, fnVars, svcVars, agents>>

WfIdle ==
    /\ agents = DefaultAgents
    /\ wf = NoWorkflow

\* the database as populated, and databases to which agents with ids the
\* templates name were added
WfInit ==
    /\ agents \in {DefaultAgents \cup added : added \in SUBSET NamedAgents}
    /\ wf = NoWorkflow

NextWf ==
    \/ \E t \in DOMAIN WorkflowTemplates : CreateWorkflowFromTemplate(t)
    \/ ExecuteWorkflow
    \/ AgentFound
    \/ AgentMissing
    \/ AgentReadFail
    \/ \E content \in {"", "text"} : ChatResolve(content)
    \/ ChatReject

(***************************************************************************)
(* SecurityManager (utils/security.ts): access control, encryption keys    *)
(* and the encryptData / decryptData pair.  The clock counts days.         *)
(***************************************************************************)
Roles == {"admin", "manager", "user", "viewer", "guest"}
Resources == {"workflows", "documents", "analytics", "*"}
AccessActions == {"read", "execute", "delete", "*"}

Permission(resource, actions) == [resource |-> resource, actions |-> actions]

\* getUserPermissions(role): permissions[role] || permissions.viewer
GetUserPermissions(role) ==
    CASE role = "admin" -> { Permission("*", {"*"}) }
      [] role = "manager" ->
            { Permission("workflows", {"read", "write", "execute"}),
              Permission("documents", {"read", "write"}),
              Permission("agents", {"read", "write"}),
              Permission("analytics", {"read"}) }
      [] role = "user" ->
            { Permission("workflows", {"read", "execute"}),
              Permission("documents", {"read", "write"}),
              Permission("agents", {"read"}) }
      [] OTHER ->
            { Permission("workflows", {"read"}),
              Permission("documents", {"read"}),
              Permission("agents", {"read"}) }

\* permissions.some(p => p.resource === resource && p.actions.includes(action))
SomePermission(permissions, resource, action) ==
    \E p \in permissions : p.resource = resource /\ action \in p.actions

\* the value of db.users?.get(userId): the Database class declares no users
\* table, so db.users is undefined and the expression is undefined; with a
\* users table it is the stored user
UsersGet(hasTable, role) ==
    IF hasTable THEN [found |-> TRUE, role |-> role] ELSE [found |-> FALSE, role |-> role]

IdleAccess ==
    [pc |-> "idle", role |-> "viewer", resource |-> "workflows", action |-> "read",
     result |-> FALSE]

\* an encryption key: its id and its expiresAt
EncryptionKey(id, at) == [id |-> id, expiresAt |-> at + KeyLifetimeDays]

\* key.expiresAt < now
Expired(key, now) == key.expiresAt < now

\* Array.from(this.encryptionKeys.values())[0]: a Map keeps insertion order
FirstKey(keys) == IF keys = <<>> THEN 0 ELSE keys[1].id

\* the keys left by performDataRetention
UnexpiredKeys(keys, now) == SelectSeq(keys, LAMBDA k : ~Expired(k, now))

\* the strings handed to encryptData; the last is a lone surrogate
PlainTexts == {"", "test", "<D800>"}

\* decoder.decode(encoder.encode(d)): an unpaired surrogate is encoded as
\* U+FFFD
Utf8RoundTrip(d) == IF d = "<D800>" THEN "<FFFD>" ELSE d

\* crypto.subtle.encrypt under a key: what decrypt needs to give it back
Encrypted(keyId, d) == [key |-> keyId, text |-> Utf8RoundTrip(d)]

IdleEncrypt ==
    [pc |-> "idle", data |-> "", key |-> 0, cipher |-> Encrypted(0, ""), result |-> "",
     error |-> ""]

\* new SecurityManager(config): the constructor has called
\* initializeSecurity, which awaits generateEncryptionKeys when encryption
\* is enabled.  built (observation): config.encryptionEnabled as given to
\* the constructor; updates: the updateConfig calls made
NewSecurityManager(accessControl, encryptionEnabled, retention, usersTable) ==
    [accessControl |-> accessControl, encryptionEnabled |-> encryptionEnabled,
     dataRetention |-> retention, usersTable |-> usersTable,
     encryptionKeys |-> <<>>, generating |-> IF encryptionEnabled THEN 1 ELSE 0,
     made |-> 0, now |-> 0, lastEvent |-> "", built |-> encryptionEnabled, updates |-> 0]

SecIdle ==
    /\ sec = NewSecurityManager(FALSE, FALSE, FALSE, FALSE)
    /\ acc = IdleAccess
    /\ enc = IdleEncrypt

SecInit ==
    /\ sec \in {NewSecurityManager(a, e, r, u) : a \in BOOLEAN, e \in BOOLEAN,
                                                  r \in BOOLEAN, u \in BOOLEAN}
    /\ acc = IdleAccess
    /\ enc = IdleEncrypt

\* crypto.subtle.generateKey resolves: the key is appended to the map
GenerateKeyResolve ==
    /\ sec.generating > 0
    /\ sec' = [sec EXCEPT !.generating = @ - 1, !.made = @ + 1,
                          !.encryptionKeys = Append(@, EncryptionKey(sec.made + 1, sec.now)),
                          !.lastEvent = "Encryption key generated"]
    /\ UNCHANGED <<baseVars, acc, enc, collab, ps, le, learn>>

\* crypto.subtle.generateKey rejects: the catch logs and returns
GenerateKeyReject ==
    /\ sec.generating > 0
    /\ sec' = [sec EXCEPT !.generating = @ - 1,
                          !.lastEvent = "Failed to generate encryption key"]
    /\ UNCHANGED <<baseVars, acc, enc, collab, ps, le, learn>>

\* updateConfig({encryptionEnabled}): this.config is replaced by the merged
\* configuration first, and the test that guards generateEncryptionKeys
\* reads the merged configuration
UpdateConfig(encryptionEnabled) ==
    /\ sec.updates < MaxUpdates
    /\ LET config == [sec EXCEPT !.encryptionEnabled = encryptionEnabled,
                                 !.updates = @ + 1,
                                 !.lastEvent = "Security configuration updated"]
       IN  sec' = IF encryptionEnabled /\ ~config.encryptionEnabled
                  THEN [config EXCEPT !.generating = @ + 1]
                  ELSE config
    /\ UNCHANGED <<baseVars, acc, enc, collab, ps, le, learn>>

\* time passes: more than the lifetime of a key
ClockAdvance ==
    /\ sec.now < MaxClock * (KeyLifetimeDays + 1)
    /\ sec' = [sec EXCEPT !.now = @ + KeyLifetimeDays + 1]
    /\ UNCHANGED <<baseVars, acc, enc, collab, ps, le, learn>>

\* the setInterval callback, up to its await of generateEncryptionKeys (the
\* checks on the audit logs that follow change no key)
PerformSecurityChecks ==
    /\ sec.made + sec.generating < MaxKeys
    /\ \E i \in 1..Len(sec.encryptionKeys) : Expired(sec.encryptionKeys[i], sec.now)
    /\ sec' = [sec EXCEPT !.generating = @ + 1, !.lastEvent = "Encryption keys expired"]
    /\ UNCHANGED <<baseVars, acc, enc, collab, ps, le, learn>>

\* performDataRetention(): expired keys are deleted
PerformDataRetention ==
    /\ sec.dataRetention
    /\ sec' = [sec EXCEPT !.encryptionKeys = UnexpiredKeys(@, sec.now),
                          !.lastEvent = "Data retention cleanup performed"]
    /\ UNCHANGED <<baseVars, acc, enc, collab, ps, le, learn>>

\* checkAccess(userId, resource, action) for a user of the given role, up to
\* the await of db.users?.get(userId)
CheckAccess(role, resource, action) ==
    /\ acc.pc \in {"idle", "returned", "failed"}
    /\ enc.pc = "idle"
    /\ acc' = IF ~sec.accessControl
              THEN [pc |-> "returned", role |-> role, resource |-> resource,
                    action |-> action, result |-> TRUE]
              ELSE [pc |-> "get", role |-> role, resource |-> resource,
                    action |-> action, result |-> FALSE]
    /\ UNCHANGED <<baseVars, sec, enc, collab, ps, le, learn>>

\* the read resolves: if (!user) return false; otherwise the permissions
\* of user.role decide
CheckAccessResolve ==
    /\ acc.pc = "get"
    /\ LET user == UsersGet(sec.usersTable, acc.role)
       IN  acc' = [acc EXCEPT !.pc = "returned",
                              !.result = /\ user.found
                                         /\ SomePermission(GetUserPermissions(user.role),
                                                           acc.resource, acc.action)]
    /\ UNCHANGED <<baseVars, sec, enc, collab, ps, le, learn>>

\* the read rejects: checkAccess rejects
CheckAccessFail ==
    /\ acc.pc = "get"
    /\ sec.usersTable
    /\ acc' = [acc EXCEPT !.pc = "failed"]
    /\ UNCHANGED <<baseVars, sec, enc, collab, ps, le, learn>>

\* the catch of encryptData and decryptData: the event is logged, the error
\* rethrown
CryptoCaught(x, error) == [x EXCEPT !.pc = "failed", !.error = error]

\* encryptData(data) up to the await of crypto.subtle.encrypt
EncryptData(data) ==
    /\ enc.pc \in {"idle", "done", "failed"}
    /\ acc.pc = "idle"
    /\ LET call == [IdleEncrypt EXCEPT !.data = data]
       IN  IF ~sec.encryptionEnabled
           THEN /\ enc' = [call EXCEPT !.pc = "encrypted", !.result = data]
                /\ UNCHANGED sec
           ELSE IF FirstKey(sec.encryptionKeys) = 0
           THEN /\ enc' = CryptoCaught(call, "No encryption key available")
                /\ sec' = [sec EXCEPT !.lastEvent = "Data encryption failed"]
           ELSE /\ enc' = [call EXCEPT !.pc = "encrypting",
                                       !.key = FirstKey(sec.encryptionKeys)]
                /\ UNCHANGED sec
    /\ UNCHANGED <<baseVars, acc, collab, ps, le, learn>>

\* crypto.subtle.encrypt resolves: iv and ciphertext are returned in base64
EncryptResolve ==
    /\ enc.pc = "encrypting"
    /\ enc' = [enc EXCEPT !.pc = "encrypted", !.cipher = Encrypted(enc.key, enc.data)]
    /\ UNCHANGED <<baseVars, sec, acc, collab, ps, le, learn>>

\* crypto.subtle.encrypt rejects
EncryptReject ==
    /\ enc.pc = "encrypting"
    /\ enc' = CryptoCaught(enc, "encrypt")
    /\ sec' = [sec EXCEPT !.lastEvent = "Data encryption failed"]
    /\ UNCHANGED <<baseVars, acc, collab, ps, le, learn>>

\* decryptData on the value encryptData returned, up to the await of
\* crypto.subtle.decrypt
DecryptData ==
    /\ enc.pc = "encrypted"
    /\ IF ~sec.encryptionEnabled
       THEN /\ enc' = [enc EXCEPT !.pc = "done"]
            /\ UNCHANGED sec
       ELSE IF FirstKey(sec.encryptionKeys) = 0
       THEN /\ enc' = CryptoCaught(enc, "No encryption key available")
            /\ sec' = [sec EXCEPT !.lastEvent = "Data decryption failed"]
       ELSE /\ enc' = [enc EXCEPT !.pc = "decrypting", !.key = FirstKey(sec.encryptionKeys)]
            /\ UNCHANGED sec
    /\ UNCHANGED <<baseVars, acc, collab, ps, le, learn>>

\* crypto.subtle.decrypt resolves when the key is the one the data was
\* encrypted under
DecryptResolve ==
    /\ enc.pc = "decrypting"
    /\ enc.key = enc.cipher.key
    /\ enc' = [enc EXCEPT !.pc = "done", !.result = enc.cipher.text]
    /\ UNCHANGED <<baseVars, sec, acc, collab, ps, le, learn>>

\* crypto.subtle.decrypt rejects under any other key
DecryptReject ==
    /\ enc.pc = "decrypting"
    /\ enc.key # enc.cipher.key
    /\ enc' = CryptoCaught(enc, "decrypt")
    /\ sec' = [sec EXCEPT !.lastEvent = "Data decryption failed"]
    /\ UNCHANGED <<baseVars, acc, collab, ps, le, learn>>

\* the manager with its configuration updated while data is encrypted
\* and decrypted
NextConfig ==
    \/ GenerateKeyResolve
    \/ GenerateKeyReject
    \/ \E encryptionEnabled \in BOOLEAN : UpdateConfig(encryptionEnabled)
    \/ ClockAdvance
    \/ PerformSecurityChecks
    \/ PerformDataRetention
    \/ \E data \in PlainTexts : EncryptData(data)
    \/ EncryptResolve
    \/ EncryptReject
    \/ DecryptData
    \/ DecryptResolve
    \/ DecryptReject

NextSec ==
    \/ GenerateKeyResolve
    \/ GenerateKeyReject
    \/ ClockAdvance
    \/ PerformSecurityChecks
    \/ PerformDataRetention
    \/ \E role \in Roles, resource \in Resources, action \in AccessActions :
          CheckAccess(role, resource, action)
    \/ CheckAccessResolve
    \/ CheckAccessFail
    \/ \E data \in PlainTexts : EncryptData(data)
    \/ EncryptResolve
    \/ EncryptReject
    \/ DecryptData
    \/ DecryptResolve
    \/ DecryptReject

(***************************************************************************)
(* CollaborationManager (utils/collaboration): the WebSocket, the local    *)
(* sessions and the messages its methods hand to sendMessage.              *)
(***************************************************************************)
MessageTypes ==
    {"create_session", "join_session", "leave_session", "send_event", "add_comment",
     "resolve_comment"}

\* new CollaborationManager(serverUrl, userId, userName)
\* ws: "null", or the readyState of the socket this.ws refers to; closing:
\* the sockets closed by disconnect() whose close event is still to come;
\* detached: the sockets no longer referred to by this.ws (a later connect()
\* replaced them) that are still connecting or open, their handlers still
\* bound to the manager; timers: the pending setTimeout callbacks of
\* reconnect(); shut: disconnect() was the last of connect() and
\* disconnect() the caller made; sent: the types handed to sendMessage;
\* wire: the types passed to ws.send
NewCollaboration ==
    [ws |-> "null", closing |-> 0, detached |-> [connecting |-> 0, open |-> 0],
     timers |-> 0, reconnectAttempts |-> 0, shut |-> FALSE,
     sessions |-> 0, sent |-> <<>>, wire |-> <<>>]

CollabIdle == collab = NewCollaboration

\* the sockets that still have an event to deliver, and the pending timers
LiveSockets(c) ==
    (IF c.ws \in {"connecting", "open"} THEN 1 ELSE 0)
    + c.closing + c.detached.connecting + c.detached.open

\* sendMessage(type, data): ws.send only if the socket is open; there is no
\* else branch
SendMessage(c, type) ==
    [c EXCEPT !.sent = Append(@, type),
              !.wire = IF c.ws = "open" THEN Append(@, type) ELSE @]

\* reconnect(): no timer once maxReconnectAttempts is reached
Reconnect(c) ==
    IF c.reconnectAttempts >= MaxReconnectAttempts THEN c
    ELSE [c EXCEPT !.timers = @ + 1]

\* the body of connect(): this.ws = new WebSocket(...); the socket this.ws
\* referred to is neither closed nor stripped of its handlers
ConnectOn(c) ==
    [c EXCEPT !.ws = "connecting",
              !.detached = IF c.ws \in {"connecting", "open"}
                           THEN [@ EXCEPT ![c.ws] = @ + 1] ELSE @]

\* connect() called by the application, which calls it only while the
\* manager holds no socket or a closed one
Connect ==
    /\ collab.ws \in {"null", "closed"}
    /\ LiveSockets(collab) + collab.timers < MaxSockets
    /\ collab' = [ConnectOn(collab) EXCEPT !.shut = FALSE]
    /\ UNCHANGED <<baseVars, secVars, ps, le, learn>>

\* ws.onopen of the socket this.ws refers to
SocketOpen ==
    /\ collab.ws = "connecting"
    /\ collab' = [collab EXCEPT !.ws = "open", !.reconnectAttempts = 0]
    /\ UNCHANGED <<baseVars, secVars, ps, le, learn>>

\* ws.onopen of a detached socket
DetachedOpen ==
    /\ collab.detached.connecting > 0
    /\ collab' = [collab EXCEPT !.detached.connecting = @ - 1, !.detached.open = @ + 1,
                                !.reconnectAttempts = 0]
    /\ UNCHANGED <<baseVars, secVars, ps, le, learn>>

\* ws.onclose of the socket this.ws refers to: the connection failed or was
\* lost
SocketClose ==
    /\ collab.ws \in {"connecting", "open"}
    /\ collab' = Reconnect([collab EXCEPT !.ws = "closed"])
    /\ UNCHANGED <<baseVars, secVars, ps, le, learn>>

\* ws.onclose of a detached socket
DetachedClose(state) ==
    /\ collab.detached[state] > 0
    /\ collab' = Reconnect([collab EXCEPT !.detached[state] = @ - 1])
    /\ UNCHANGED <<baseVars, secVars, ps, le, learn>>

\* ws.onclose of a socket closed by disconnect()
SocketClosed ==
    /\ collab.closing > 0
    /\ collab' = Reconnect([collab EXCEPT !.closing = @ - 1])
    /\ UNCHANGED <<baseVars, secVars, ps, le, learn>>

\* the setTimeout callback of reconnect(): reconnectAttempts++, connect()
ReconnectTimer ==
    /\ collab.timers > 0
    /\ collab' = ConnectOn([collab EXCEPT !.timers = @ - 1, !.reconnectAttempts = @ + 1])
    /\ UNCHANGED <<baseVars, secVars, ps, le, learn>>

\* disconnect(): if (this.ws) { this.ws.close(); this.ws = null }
Disconnect ==
    /\ collab.ws # "null"
    /\ collab' = [collab EXCEPT !.ws = "null", !.shut = TRUE,
                                !.closing = IF collab.ws \in {"connecting", "open"}
                                            THEN @ + 1 ELSE @]
    /\ UNCHANGED <<baseVars, secVars, ps, le, learn>>

\* createSession: the session is stored locally, then sendMessage
CreateSession ==
    /\ Len(collab.sent) < MaxMessages
    /\ collab.sessions < MaxSessions
    /\ collab' = SendMessage([collab EXCEPT !.sessions = @ + 1], "create_session")
    /\ UNCHANGED <<baseVars, secVars, ps, le, learn>>

\* joinSession, leaveSession on a session of the map (joinSession throws
\* and leaveSession returns before sendMessage when there is none);
\* sendEvent, addComment, resolveComment
SessionMessage(type) ==
    /\ Len(collab.sent) < MaxMessages
    /\ type \in {"join_session", "leave_session"} => collab.sessions > 0
    /\ collab' = SendMessage(collab, type)
    /\ UNCHANGED <<baseVars, secVars, ps, le, learn>>

NextCollab ==
    \/ Connect
    \/ SocketOpen
    \/ DetachedOpen
    \/ SocketClose
    \/ \E state \in {"connecting", "open"} : DetachedClose(state)
    \/ SocketClosed
    \/ ReconnectTimer
    \/ Disconnect
    \/ CreateSession
    \/ \E type \in MessageTypes \ {"create_session"} : SessionMessage(type)

(***************************************************************************)
(* One LocalEmbeddings instance (utils/embeddings.ts) and the calls made   *)
(* on it.  loads counts the calls of pipeline('feature-extraction', model) *)
(* that resolved with a loaded model.                                      *)
(***************************************************************************)
LocalCallers == 1..MaxLocalCallers

\* pc of a call: "idle"; "import" awaiting import('@xenova/transformers');
\* "load" awaiting pipeline(...); "run" awaiting this.pipeline(text, ...);
\* "done"; "failed".  op is the method called
IdleLocalCall == [pc |-> "idle", op |-> "initialize"]

NewLocalEmbeddings ==
    [pipeline |-> FALSE, loads |-> 0, calls |-> [c \in LocalCallers |-> IdleLocalCall]]

LeIdle == le = NewLocalEmbeddings

\* initialize(): if (this.pipeline) return; otherwise the import is awaited
LocalInitialize(c) ==
    /\ le.calls[c].pc \in {"idle", "done", "failed"}
    /\ le' = [le EXCEPT !.calls[c] =
                 [pc |-> IF le.pipeline THEN "done" ELSE "import", op |-> "initialize"]]
    /\ UNCHANGED <<baseVars, secVars, collab, ps, learn>>

\* generateEmbeddings(text): if (!this.pipeline) await this.initialize(),
\* otherwise this.pipeline(text, ...) is awaited
LocalGenerate(c) ==
    /\ le.calls[c].pc \in {"idle", "done", "failed"}
    /\ le' = [le EXCEPT !.calls[c] =
                 [pc |-> IF le.pipeline THEN "run" ELSE "import", op |-> "generate"]]
    /\ UNCHANGED <<baseVars, secVars, collab, ps, learn>>

\* the import resolves: pipeline('feature-extraction', this.model) is awaited
LocalImported(c) ==
    /\ le.calls[c].pc = "import"
    /\ le' = [le EXCEPT !.calls[c].pc = "load"]
    /\ UNCHANGED <<baseVars, secVars, collab, ps, learn>>

\* the model is loaded: this.pipeline is assigned; initialize returns, and a
\* generateEmbeddings call goes on to this.pipeline(text, ...)
LocalLoaded(c) ==
    /\ le.calls[c].pc = "load"
    /\ le' = [le EXCEPT !.pipeline = TRUE, !.loads = @ + 1,
                        !.calls[c].pc = IF le.calls[c].op = "generate" THEN "run" ELSE "done"]
    /\ UNCHANGED <<baseVars, secVars, collab, ps, learn>>

\* the import or the load rejects: 'Local embeddings not available'
LocalLoadFail(c) ==
    /\ le.calls[c].pc \in {"import", "load"}
    /\ le' = [le EXCEPT !.calls[c].pc = "failed"]
    /\ UNCHANGED <<baseVars, secVars, collab, ps, learn>>

\* this.pipeline(text, ...) resolves or rejects
LocalRun(c, ok) ==
    /\ le.calls[c].pc = "run"
    /\ le' = [le EXCEPT !.calls[c].pc = IF ok THEN "done" ELSE "failed"]
    /\ UNCHANGED <<baseVars, secVars, collab, ps, learn>>

NextLocal ==
    \/ \E c \in LocalCallers : LocalInitialize(c)
    \/ \E c \in LocalCallers : LocalGenerate(c)
    \/ \E c \in LocalCallers : LocalImported(c)
    \/ \E c \in LocalCallers : LocalLoaded(c)
    \/ \E c \in LocalCallers : LocalLoadFail(c)
    \/ \E c \in LocalCallers, ok \in BOOLEAN : LocalRun(c, ok)

(***************************************************************************)
(* recordLearningSession and updateAgentPerformance (utils/learning).  A   *)
(* row of db.agentPerformance is [id, agentId, totalInteractions], the     *)
(* table is kept in the order of its primary key id, a random UUID; the    *)
(* averaged quality fields of a row are not part of the state.             *)
(***************************************************************************)
LearnCallers == 1..MaxLearnCallers

\* the agentId argument; "" stands for undefined
LearnAgentIds == {"agent-1", "agent-2", ""}

\* pc of a call: "idle"; "session" awaiting db.learningSessions.add; "read"
\* awaiting db.agentPerformance.where('agentId').equals(agentId).first();
\* "write" awaiting db.agentPerformance.update or .add; "done".  existing
\* is the row the read returned (id 0: undefined); failed: a catch ran
IdleLearnCall ==
    [pc |-> "idle", agentId |-> "", existing |-> [id |-> 0, totalInteractions |-> 0],
     failed |-> FALSE]

NewLearning ==
    [sessions |-> [a \in LearnAgentIds |-> 0], performance |-> <<>>,
     calls |-> [c \in LearnCallers |-> IdleLearnCall]]

LearnIdle == learn = NewLearning

\* where('agentId').equals(agentId).first(): the matching row with the
\* lowest primary key, or undefined
FirstPerformance(table, agentId) ==
    LET hits == {i \in 1..Len(table) : table[i].agentId = agentId}
    IN  IF hits = {} THEN [id |-> 0, totalInteractions |-> 0]
        ELSE LET i == CHOOSE h \in hits : \A g \in hits : h <= g
             IN  [id |-> table[i].id, totalInteractions |-> table[i].totalInteractions]

\* update(existing.id, {totalInteractions, ...}) with the count computed
\* from the row as it was read
UpdatePerformance(table, existing) ==
    [i \in 1..Len(table) |->
        IF table[i].id = existing.id
        THEN [table[i] EXCEPT !.totalInteractions = existing.totalInteractions + 1]
        ELSE table[i]]

\* add({id: crypto.randomUUID(), agentId, totalInteractions: 1, ...}): the
\* new key falls anywhere among the keys of the table
AddPerformance(table, at, id, agentId) ==
    [i \in 1..Len(table) + 1 |->
        IF i < at THEN table[i]
        ELSE IF i = at THEN [id |-> id, agentId |-> agentId, totalInteractions |-> 1]
        ELSE table[i - 1]]

\* recordLearningSession(chatId, agentId, ...) up to its first await
RecordLearningSession(c, agentId) ==
    /\ learn.calls[c].pc = "idle"
    /\ learn' = [learn EXCEPT !.calls[c] = [IdleLearnCall EXCEPT !.pc = "session",
                                                                !.agentId = agentId]]
    /\ UNCHANGED <<baseVars, secVars, collab, ps, le>>

\* db.learningSessions.add resolves; if (agentId) updateAgentPerformance is
\* called and awaits its read
SessionAdded(c) ==
    /\ learn.calls[c].pc = "session"
    /\ learn' = [learn EXCEPT !.sessions[learn.calls[c].agentId] = @ + 1,
                              !.calls[c].pc = IF learn.calls[c].agentId # ""
                                              THEN "read" ELSE "done"]
    /\ UNCHANGED <<baseVars, secVars, collab, ps, le>>

\* the read resolves
PerformanceRead(c) ==
    /\ learn.calls[c].pc = "read"
    /\ learn' = [learn EXCEPT !.calls[c].pc = "write",
                              !.calls[c].existing =
                                  FirstPerformance(learn.performance, learn.calls[c].agentId)]
    /\ UNCHANGED <<baseVars, secVars, collab, ps, le>>

\* the update or the add resolves; both functions return
PerformanceWritten(c) ==
    /\ learn.calls[c].pc = "write"
    /\ LET call == learn.calls[c]
       IN  IF call.existing.id # 0
           THEN learn' = [learn EXCEPT !.calls[c].pc = "done",
                                       !.performance = UpdatePerformance(@, call.existing)]
           ELSE \E at \in 1..Len(learn.performance) + 1 :
                   learn' = [learn EXCEPT !.calls[c].pc = "done",
                                          !.performance =
                                              AddPerformance(@, at, c, call.agentId)]
    /\ UNCHANGED <<baseVars, secVars, collab, ps, le>>

\* the awaited database call rejects: the catch of the function that made
\* it logs the error and the call completes
LearnCaught(c) ==
    /\ learn.calls[c].pc \in {"session", "read", "write"}
    /\ learn' = [learn EXCEPT !.calls[c].pc = "done", !.calls[c].failed = TRUE]
    /\ UNCHANGED <<baseVars, secVars, collab, ps, le>>

NextLearn ==
    \/ \E c \in LearnCallers, agentId \in LearnAgentIds : RecordLearningSession(c, agentId)
    \/ \E c \in LearnCallers : SessionAdded(c)
    \/ \E c \in LearnCallers : PerformanceRead(c)
    \/ \E c \in LearnCallers : PerformanceWritten(c)
    \/ \E c \in LearnCallers : LearnCaught(c)

(***************************************************************************)
(* The vector stores (utils/vector-store.ts).                              *)
(***************************************************************************)
MaxBatches == 2      \* addChunks is called with up to MaxBatches full batches

\* const batchSize = 100
BatchSize == 100

IdleLocal == [pc |-> "idle", query |-> 2, limit |-> 0, result |-> <<>>]

\* LocalVectorStore.searchChunks(query, limit): return []
LocalSearchChunks(query, limit) == <<>>

LocalSearch(q, k) ==
    /\ ls.pc = "idle"
    /\ ls' = [pc |-> "done", query |-> q, limit |-> k, result |-> LocalSearchChunks(q, k)]
    /\ UNCHANGED <<chunkVars, mgrVars, callVars, engVars, fnVars, wfVars, svcVars, pv>>

\* the caller takes the result
LocalReturn ==
    /\ ls.pc = "done"
    /\ ls' = IdleLocal
    /\ UNCHANGED <<chunkVars, mgrVars, callVars, engVars, fnVars, wfVars, svcVars, pv>>

\* the chunks argument of addChunks: n records, every second one stored
\* without embeddings
PineconeChunks(n) ==
    [k \in 1..n |->
        [id |-> k, documentId |-> 1, content |-> 3,
         embeddings |-> IF k % 2 = 0 THEN NoVector ELSE ProviderGenerate("openai", 3),
         chunkIndex |-> k - 1]]

\* the sizes addChunks is called with: around every multiple of batchSize
PineconeSizes ==
    {0, 1} \cup {b * BatchSize + d : b \in 1..MaxBatches, d \in {-1, 0, 1}}

\* chunks.map(chunk => ({id, values: chunk.embeddings || [], metadata}))
PineconeVector(chunk) ==
    [id |-> chunk.id,
     values |-> IF chunk.embeddings = NoVector THEN <<>> ELSE chunk.embeddings,
     metadata |-> [content |-> chunk.content, documentId |-> chunk.documentId,
                   chunkIndex |-> chunk.chunkIndex]]

PineconeVectors(chunks) == [k \in 1..Len(chunks) |-> PineconeVector(chunks[k])]

\* a batch that runs one vector into the next batch
PineconeBatchOverrun(vectors, i) == Slice(vectors, i, i + BatchSize + 1)

\* vectors.slice(i, i + batchSize)
PineconeBatch(vectors, i) == Slice(vectors, i, i + BatchSize)

\* pc "upsert": the request for the batch at i is awaited
IdlePinecone == [pc |-> "idle", chunks |-> <<>>, i |-> 0, requests |-> <<>>]

\* the for loop from its head to the next await: the request for the batch at
\* i is issued, or the loop is over and addChunks returns
PineconeLoop(x) ==
    IF x.i < Len(x.chunks)
    THEN [x EXCEPT !.pc = "upsert",
                   !.requests = Append(@, PineconeBatch(PineconeVectors(x.chunks), x.i))]
    ELSE [x EXCEPT !.pc = "done"]

\* addChunks(chunks): if (chunks.length === 0) return
PineconeAddChunks(n) ==
    /\ pv.pc \in {"idle", "done", "failed"}
    /\ pv' = IF n = 0 THEN [IdlePinecone EXCEPT !.pc = "done"]
             ELSE PineconeLoop([IdlePinecone EXCEPT !.chunks = PineconeChunks(n)])
    /\ UNCHANGED <<chunkVars, mgrVars, callVars, engVars, fnVars, wfVars, svcVars, ls>>

\* the upsert request is answered with an ok status; i += batchSize
PineconeUpsertOk ==
    /\ pv.pc = "upsert"
    /\ pv' = PineconeLoop([pv EXCEPT !.i = @ + BatchSize])
    /\ UNCHANGED <<chunkVars, mgrVars, callVars, engVars, fnVars, wfVars, svcVars, ls>>

\* makeRequest throws (fetch rejects or !response.ok): addChunks rejects
PineconeUpsertFail ==
    /\ pv.pc = "upsert"
    /\ pv' = [pv EXCEPT !.pc = "failed"]
    /\ UNCHANGED <<chunkVars, mgrVars, callVars, engVars, fnVars, wfVars, svcVars, ls>>

\* PineconeVectorStore.searchChunks(query, limit)
\* mgr: the manager the call created (index into managers); vector: the
\* query vector; request: the body of the /query request; result: the
\* number of matches mapped to chunks
IdlePineconeSearch ==
    [pc |-> "idle", query |-> 2, limit |-> 0, mgr |-> 0, vector |-> NoVector,
     request |-> [vector |-> NoVector, topK |-> 0], result |-> 0]

\* searchChunks up to the provider call of getEmbeddings:
\* createEmbeddingsManager('openai', this.apiKey) throws without a key,
\* otherwise it returns a new manager, on which getEmbeddings(query) is
\* called
PineconeSearch(q, k, hasKey) ==
    /\ ps.pc \in {"idle", "done", "failed"}
    /\ Len(managers) <= MaxPineconeSearches
    /\ LET call == [IdlePineconeSearch EXCEPT !.query = q, !.limit = k]
       IN  IF hasKey
           THEN /\ managers' = Append(managers, NewManager("openai"))
                /\ ps' = [call EXCEPT !.pc = "embed", !.mgr = Len(managers) + 1]
           ELSE /\ ps' = [call EXCEPT !.pc = "failed"]
                /\ UNCHANGED managers
    /\ UNCHANGED <<chunkVars, current, callVars, engVars, storeVars, fnVars, wfVars,
                   secVars, collab, le, learn>>

\* the rest of searchChunks up to the await of makeRequest('/query', ...)
PineconeQuery(x, v) ==
    [x EXCEPT !.pc = "query", !.vector = v, !.request = [vector |-> v, topK |-> x.limit]]

\* the provider of the new manager resolves: the vector is cached
PineconeEmbedResolve ==
    /\ ps.pc = "embed"
    /\ LET v == ProviderGenerate(managers[ps.mgr].provider, ps.query)
       IN  /\ managers' = [managers EXCEPT
                              ![ps.mgr] = ManagerAfterResolve(@, ps.query, TRUE, v)]
           /\ ps' = PineconeQuery(ps, v)
    /\ UNCHANGED <<chunkVars, current, callVars, engVars, storeVars, fnVars, wfVars,
                   secVars, collab, le, learn>>

\* the provider rejects: getEmbeddings answers with the hash vector
PineconeEmbedReject ==
    /\ ps.pc = "embed"
    /\ managers' = [managers EXCEPT ![ps.mgr] = ManagerAfterReject(@, ps.query, TRUE)]
    /\ ps' = PineconeQuery(ps, FallbackResult(ps.query))
    /\ UNCHANGED <<chunkVars, current, callVars, engVars, storeVars, fnVars, wfVars,
                   secVars, collab, le, learn>>

\* the index answers with n matches, which are mapped to chunks
PineconeQueryOk(n) ==
    /\ ps.pc = "query"
    /\ n <= ps.limit
    /\ ps' = [ps EXCEPT !.pc = "done", !.result = n]
    /\ UNCHANGED <<baseVars, secVars, collab, le, learn>>

\* makeRequest throws: searchChunks rejects
PineconeQueryFail ==
    /\ ps.pc = "query"
    /\ ps' = [ps EXCEPT !.pc = "failed"]
    /\ UNCHANGED <<baseVars, secVars, collab, le, learn>>

StoreIdle ==
    /\ ls = IdleLocal
    /\ pv = IdlePinecone

PsIdle == ps = IdlePineconeSearch

SvcIdle == SecIdle /\ CollabIdle /\ PsIdle /\ LeIdle /\ LearnIdle

AppIdle == StoreIdle /\ FnIdle /\ WfIdle /\ SvcIdle

NextStore ==
    \/ \E q \in QueryTexts, k \in 0..MaxLimit : LocalSearch(q, k)
    \/ LocalReturn
    \/ \E n \in PineconeSizes : PineconeAddChunks(n)
    \/ PineconeUpsertOk
    \/ PineconeUpsertFail

\* PineconeVectorStore.searchChunks next to an engine that has a manager
NextPineconeSearch ==
    \/ \E q \in QueryTexts, k \in 0..MaxLimit, hasKey \in BOOLEAN : PineconeSearch(q, k, hasKey)
    \/ PineconeEmbedResolve
    \/ PineconeEmbedReject
    \/ \E n \in 0..MaxLimit : PineconeQueryOk(n)
    \/ PineconeQueryFail

(***************************************************************************)
(* Specifications.                                                         *)
(***************************************************************************)
ChunkIdle ==
    /\ ckText = <<>>
    /\ ckSize = DefaultChunkSize
    /\ ckOverlap = DefaultOverlap
    /\ ckStart = 0
    /\ ckChunks = <<>>
    /\ ckPc = "done"
    /\ ckResult = <<>>

ChunkSpecInit == ChunkInit /\ MgrIdle /\ CallsIdle /\ EngineIdle /\ AppIdle

ChunkSpec == ChunkSpecInit /\ [][NextChunk]_vars

MgrSpecInit == ChunkIdle /\ MgrInit /\ CallsIdle /\ EngineIdle /\ AppIdle

MgrSpec == MgrSpecInit /\ [][NextMgr]_vars

Init == ChunkIdle /\ CallsIdle /\ EngineInit /\ AppIdle

Next == NextEngine

Spec == Init /\ [][Next]_vars

(***************************************************************************)
(* Searches over a repository content drawn from records the engine can    *)
(* hold: chunks embedded by the 'openai' provider, chunks embedded by the  *)
(* hash provider (a 'simple' manager, or the fallback of a failed provider *)
(* call) and a record without embeddings.                                  *)
(***************************************************************************)
MaxStored == 3       \* records in the repository when the search starts

StoredRow(id, d, i, t, v) ==
    [id |-> id, documentId |-> d, content |-> t, embeddings |-> v, chunkIndex |-> i]

StoredPool ==
    {StoredRow(1, 1, 0, 3, ProviderGenerate("openai", 3)),
     StoredRow(2, 1, 1, 4, ProviderGenerate("openai", 4)),
     StoredRow(3, 2, 0, 5, ProviderGenerate("openai", 5)),
     StoredRow(4, 2, 0, 3, ProviderGenerate("simple", 3)),
     StoredRow(5, 1, 2, 3, ProviderGenerate("openai", 3)),
     OrphanRow}

SearchContents == {S \in SUBSET StoredPool : Cardinality(S) <= MaxStored}

SearchSpecInit ==
    /\ ChunkIdle
    /\ CallsIdle
    /\ \E ms \in {<<>>} \cup {<<NewManager(p)>> : p \in EngineProviders} :
          managers = ms /\ current = Len(ms)
    /\ rows \in SearchContents
    /\ pd = [p \in PdIds |-> IdlePd]
    /\ sr = IdleSearch
    /\ ops = 0
    /\ AppIdle

\* the vector stores over a drawn repository content
StoreSpecInit ==
    /\ ChunkIdle
    /\ MgrIdle
    /\ CallsIdle
    /\ rows \in SearchContents
    /\ pd = [p \in PdIds |-> IdlePd]
    /\ sr = IdleSearch
    /\ ops = 0
    /\ AppIdle

\* direct calls of the pure functions
FnSpecInit ==
    /\ ChunkIdle
    /\ MgrIdle
    /\ CallsIdle
    /\ EngineIdle
    /\ AppIdle

FnSpec == FnSpecInit /\ [][NextFn]_vars

\* workflows created from the predefined templates and executed
WfSpecInit ==
    /\ ChunkIdle
    /\ MgrIdle
    /\ CallsIdle
    /\ EngineIdle
    /\ StoreIdle
    /\ FnIdle
    /\ WfInit
    /\ SvcIdle

WfSpec == WfSpecInit /\ [][NextWf]_vars

\* one SecurityManager, from its construction
SecSpecInit ==
    /\ ChunkIdle
    /\ MgrIdle
    /\ CallsIdle
    /\ EngineIdle
    /\ StoreIdle
    /\ FnIdle
    /\ WfIdle
    /\ SecInit
    /\ CollabIdle
    /\ PsIdle
    /\ LeIdle
    /\ LearnIdle

SecSpec == SecSpecInit /\ [][NextSec]_vars

ConfigSpec == SecSpecInit /\ [][NextConfig]_vars

\* one CollaborationManager, from its construction
CollabSpecInit ==
    /\ ChunkIdle
    /\ MgrIdle
    /\ CallsIdle
    /\ EngineIdle
    /\ AppIdle

CollabSpec == CollabSpecInit /\ [][NextCollab]_vars

\* one LocalEmbeddings instance, from its construction
LocalSpecInit ==
    /\ ChunkIdle
    /\ MgrIdle
    /\ CallsIdle
    /\ EngineIdle
    /\ AppIdle

LocalSpec == LocalSpecInit /\ [][NextLocal]_vars

\* empty learning tables
LearnSpecInit ==
    /\ ChunkIdle
    /\ MgrIdle
    /\ CallsIdle
    /\ EngineIdle
    /\ AppIdle

LearnSpec == LearnSpecInit /\ [][NextLearn]_vars

\* searches on the Pinecone store while the engine holds a manager
PineconeSearchSpecInit ==
    /\ ChunkIdle
    /\ MgrInit
    /\ CallsIdle
    /\ EngineIdle
    /\ AppIdle

PineconeSearchSpec == PineconeSearchSpecInit /\ [][NextPineconeSearch]_vars

StoreSpec == StoreSpecInit /\ [][NextStore]_vars

SearchSpec == SearchSpecInit /\ [][NextSearch]_vars

(***************************************************************************)
(* C1: chunkText terminates for every text whenever 0 <= overlap <         *)
(* chunkSize: every iteration of the loop moves the window start strictly  *)
(* forward.                                                                *)
(***************************************************************************)
C1_StartAdvances ==
    [][(ckPc = "loop" /\ ckChunks' # ckChunks) => ckStart' > ckStart]_vars

(***************************************************************************)
(* C11: on a text without '.', '?', '!' every window of chunkText after    *)
(* the first starts chunkSize - overlap after the window before it.        *)
(***************************************************************************)
HasTerminator(text) == \E i \in 1..Len(text) : text[i] \in {".", "?", "!"}

C11_StartsStep ==
    [][(ckPc = "loop" /\ ckChunks' # ckChunks /\ ~HasTerminator(ckText)
            /\ ckStart' < Len(ckText))
        => ckStart' = ckStart + ckSize - ckOverlap]_vars

(***************************************************************************)
(* C12: every chunk of chunkText after the first starts no later than the  *)
(* position just after the last character kept in the chunk before it.     *)
(***************************************************************************)
C12_NoGap ==
    [][(ckPc = "loop" /\ ckChunks' # ckChunks /\ ckStart >= 0
            /\ ckStart' < Len(ckText))
        => ckStart' <= ckStart + Len(ChunkOfWindow(ckText, ckStart, ckSize))]_vars

C14_LocalMatchesEngine ==
    (ls.pc = "done" /\ ls.limit > 0 /\ \E r \in rows : r.embeddings # NoVector)
    => /\ Len(ls.result) > 0
       /\ \E p \in EngineProviders, all \in Orderings(rows) :
             ls.result = RankedChunks(ProviderGenerate(p, ls.query), all, ls.limit)

(***************************************************************************)
(* C15: the upsert requests of PineconeVectorStore.addChunks carry at most *)
(* 100 vectors each and together carry the chunks issued so far once each, *)
(* in input order; when addChunks has returned for n chunks it has issued  *)
(* ceil(n / 100) requests and every chunk is in one of them.               *)
(***************************************************************************)
RECURSIVE RequestIds(_)
RequestIds(requests) ==
    IF requests = <<>> THEN <<>>
    ELSE RequestIds(SubSeq(requests, 1, Len(requests) - 1))
         \o [j \in 1..Len(requests[Len(requests)]) |-> requests[Len(requests)][j].id]

C15_Batches ==
    LET ids  == [k \in 1..Len(pv.chunks) |-> pv.chunks[k].id]
        sent == RequestIds(pv.requests)
    IN  /\ \A b \in 1..Len(pv.requests) :
              Len(pv.requests[b]) >= 1 /\ Len(pv.requests[b]) <= 100
        /\ Len(sent) <= Len(ids)
        /\ sent = SubSeq(ids, 1, Len(sent))
        /\ pv.pc = "done" =>
              /\ sent = ids
              /\ Len(pv.requests) = (Len(ids) + 99) \div 100

\* addChunks has returned after a last request that was not full
C15_Witness ==
    /\ pv.pc = "done"
    /\ Len(pv.requests) = 3
    /\ Len(pv.requests[3]) = 1
    /\ Len(pv.chunks) = 201

(***************************************************************************)
(* C16: no getEmbeddings call is answered from a cache entry written by a  *)
(* provider call that was issued before the last clearCache(); and the     *)
(* manager that initializeEmbeddings installs starts with an empty cache.  *)
(***************************************************************************)
C16_NoStaleHit ==
    \A c \in CallerIds : calls[c].pc = "done" => ~calls[c].staleHit

C16_FreshManager ==
    [][current' # current => managers'[current'].cache = EmptyCache]_vars

C18_UnitNorm ==
    (hs.pc = "done" /\ hs.text # <<>>) =>
        /\ hs.result.dim = 384
        /\ hs.result.mag2 > 0
        /\ DOMAIN hs.result.nz \subseteq 0..383
        /\ SumSquares(hs.result.nz) = hs.result.mag2

\* a text of several words, two of them in one bucket
C18_Witness ==
    /\ hs.pc = "done"
    /\ Len(hs.text) = 3
    /\ \E i \in DOMAIN hs.result.nz : hs.result.nz[i] = 2
    /\ hs.result.mag2 = 4

(***************************************************************************)
(* C19: for two arrays of equal length calculateCosineSimilarity(a, b) and *)
(* calculateCosineSimilarity(b, a) are the same number, and it is a number *)
(* in [-1, 1].                                                             *)
(***************************************************************************)
C19_SymmetricInRange ==
    (cq.pc = "done" /\ Len(cq.a) = Len(cq.b)) =>
        /\ cq.ab.k = "num"
        /\ cq.ab = cq.ba
        /\ cq.ab.num <= cq.ab.den

(***************************************************************************)
(* C20: on the database holding the default agents, when executeWorkflow   *)
(* has returned for a workflow created from a predefined template and no   *)
(* database read or completion call has failed, the workflow is            *)
(* 'completed' and so is every step.                                       *)
(***************************************************************************)
C20_TemplateCompletes ==
    (wf.pc = "returned" /\ agents = DefaultAgents /\ wf.failure \notin {"db", "api"})
    => /\ wf.status = "completed"
       /\ \A k \in 1..Len(wf.steps) : wf.steps[k].status = "completed"

(***************************************************************************)
(* C21: with access control enabled, a checkAccess call that has returned  *)
(* for a user of some role returned true exactly when the permission table *)
(* of that role grants the action on the resource, an entry with resource  *)
(* '*' standing for every resource and an action '*' for every action.     *)
(***************************************************************************)
TableGrants(role, resource, action) ==
    \E p \in GetUserPermissions(role) :
        /\ p.resource \in {"*", resource}
        /\ p.actions \cap {"*", action} # {}

C21_AccessByTable ==
    (acc.pc = "returned" /\ sec.accessControl)
    => (acc.result <=> TableGrants(acc.role, acc.resource, acc.action))

(***************************************************************************)
(* C22: with encryption enabled, an encryptData call followed by           *)
(* decryptData on its result ends with the string that was encrypted,      *)
(* whatever the key generation, the periodic check and the retention       *)
(* cleanup did in between.                                                 *)
(***************************************************************************)
C22_RoundTrip ==
    (sec.encryptionEnabled /\ enc.pc \in {"done", "failed"})
    => (enc.pc = "done" /\ enc.result = enc.data)

(***************************************************************************)
(* C23: whenever the WebSocket is open, every message handed to            *)
(* sendMessage so far has been passed to the socket: a message issued      *)
(* while the socket was not open is delivered once it is open again.       *)
(***************************************************************************)
C23_DeliveredOnceOpen ==
    collab.ws = "open" => collab.wire = collab.sent

(***************************************************************************)
(* C24: for every window of chunkText that ends before the end of the      *)
(* text, the chunk pushed is the window cut just after its last '.', '?'   *)
(* or '!' when that character is at a position p of the text with          *)
(* p >= start + 0.7 * chunkSize, and the whole window otherwise (both      *)
(* trimmed).                                                               *)
(***************************************************************************)
LastTerminator(text, start, end) ==
    LET hits == {i \in start..(end - 1) : text[i + 1] \in {".", "?", "!"}}
    IN  IF hits = {} THEN -1 ELSE CHOOSE i \in hits : \A j \in hits : j <= i

C24_BreakInEveryWindow ==
    [][(ckPc = "loop" /\ ckChunks' # ckChunks /\ ckStart >= 0
            /\ WindowEnd(ckText, ckStart, ckSize) < Len(ckText))
        => LET end == WindowEnd(ckText, ckStart, ckSize)
               p   == LastTerminator(ckText, ckStart, end)
           IN  ckChunks'[Len(ckChunks')] =
                   Trim(IF p >= 0 /\ 10 * p >= 10 * ckStart + 7 * ckSize
                        THEN Slice(ckText, ckStart, p + 1)
                        ELSE Slice(ckText, ckStart, end))]_vars

(***************************************************************************)
(* C25: for the empty text the hash provider returns the zero vector of    *)
(* length dimensions: no bucket is incremented.                            *)
(***************************************************************************)
C25_EmptyTextZero ==
    (hs.pc = "done" /\ hs.text = <<>>)
    => (hs.result.dim = HashDimensions /\ DOMAIN hs.result.nz = {})

(***************************************************************************)
(* C26: for every word of a text handed to the hash provider the bucket    *)
(* index lies in 0..dimensions-1, also when the hash of the word is -2^31, *)
(* and the vector holds exactly one increment per word.                    *)
(***************************************************************************)
HashWords(text) == SplitWhitespace(ToLowerCase(text))

C26_BucketInRange ==
    hs.pc = "done"
    => LET words == HashWords(hs.text)
       IN  /\ \A i \in 1..Len(words) : BucketOf(words[i], HashDimensions) \in 0..(HashDimensions - 1)
           /\ DOMAIN hs.result.nz \subseteq 0..(HashDimensions - 1)
           /\ SumOver(hs.result.nz, DOMAIN hs.result.nz) = Len(words)

C26_Witness ==
    /\ hs.pc = "done"
    /\ \E i \in 1..Len(HashWords(hs.text)) :
          WordHash(HashWords(hs.text)[i]) = <<Half \div 2, 0>>
    /\ Len(HashWords(hs.text)) > 1

(***************************************************************************)
(* C27: the query vector PineconeVectorStore.searchChunks sends to the     *)
(* index was produced by the engine's active EmbeddingsManager, and has    *)
(* the dimension of that manager's provider.                               *)
(***************************************************************************)
C27_QueryByEngineManager ==
    ps.pc = "query"
    => /\ ps.mgr = current
       /\ ps.request.vector.dim = GetDimensions(managers[current])

(***************************************************************************)
(* C28: of two chunks with equal similarity that searchChunks returns, the *)
(* one with the smaller chunkIndex comes first, whatever order the         *)
(* repository yielded them in.                                             *)
(***************************************************************************)
C28_TiesByChunkIndex ==
    sr.pc \in {"searched", "done"} =>
        \A i, j \in 1..Len(sr.result) :
            (i < j /\ SimGE(Similarity(sr.emb, sr.result[i]), Similarity(sr.emb, sr.result[j]))
                   /\ SimGE(Similarity(sr.emb, sr.result[j]), Similarity(sr.emb, sr.result[i])))
            => sr.result[i].chunkIndex <= sr.result[j].chunkIndex

(***************************************************************************)
(* C29: when searchChunks reads the repository while one processDocument   *)
(* call, running alone, is under way for a document, the repository it     *)
(* reads does not hold only a part of the chunks of that document.         *)
(***************************************************************************)
PartlyWritten(p) ==
    /\ pd[p].pc \notin PdEnded
    /\ \A o \in PdIds \ {p} : pd[o].pc = "idle"
    /\ Cardinality(RowsOf(pd[p].doc)) > 0
    /\ Cardinality(RowsOf(pd[p].doc)) < Len(pd[p].chunks)

C30_LoadedOnce == le.loads <= 1

(***************************************************************************)
(* C31: calculateCosineSimilarity returns the number 0, not NaN, for two   *)
(* arrays that differ in length and for two arrays one of which has only   *)
(* zero components (two empty arrays included), in either argument order.  *)
(***************************************************************************)
ZeroNorm(v) == \A i \in 1..Len(v) : v[i] = Fin(0, 0)

C31_DegenerateIsZero ==
    (cq.pc = "done" /\ (Len(cq.a) # Len(cq.b) \/ ZeroNorm(cq.a) \/ ZeroNorm(cq.b)))
    => /\ cq.ab = ZeroRatio
       /\ cq.ba = ZeroRatio

\* a zero array against an array of the same length holding a huge component
C31_Witness ==
    /\ cq.pc = "done"
    /\ Len(cq.a) = 2 /\ Len(cq.b) = 2
    /\ ZeroNorm(cq.a)
    /\ cq.b[1] = Fin(1, 0)
    /\ cq.ab = ZeroRatio

(***************************************************************************)
(* C32: the list chunkText returns is the list of trimmed chunks it        *)
(* collected without those shorter than 50 characters: every returned      *)
(* chunk has at least 50 characters and a chunk of exactly 50 is returned. *)
(***************************************************************************)
AtLeastMinimum(chunk) == Len(chunk) >= MinChunkLength

C32_KeepsFiftyAndLonger ==
    ckPc = "done" =>
        /\ \A i \in 1..Len(ckResult) : AtLeastMinimum(ckResult[i])
        /\ ckResult = SelectSeq(ckChunks, AtLeastMinimum)

(***************************************************************************)
(* C33: reconnectAttempts is incremented by each connect() made from a     *)
(* reconnect timer and reset only by onopen, so its value is the number of *)
(* consecutive reconnection attempts since the last successful open: it    *)
(* never exceeds maxReconnectAttempts (5).                                 *)
(***************************************************************************)
C33_AtMostFiveAttempts == collab.reconnectAttempts <= MaxReconnectAttempts

(***************************************************************************)
(* C35: once the application has called disconnect(), and until it calls  *)
(* connect() again, the manager holds no socket: neither the close event   *)
(* of the socket disconnect() closed nor a reconnection scheduled earlier  *)
(* opens a new one.                                                        *)
(***************************************************************************)
C35_StaysDisconnected == collab.shut => collab.ws = "null"

(***************************************************************************)
(* C34: in every executeWorkflow call the steps set 'running' so far are   *)
(* steps 1, 2, ... in list order, each one started only when all before it *)
(* are 'completed'.  When the call has returned after a step failed, that  *)
(* step is the last one started and is 'failed', the workflow is 'paused'  *)
(* and every later step is as it was when the call was made ('pending' on  *)
(* a workflow not executed before).  When the call has returned, the       *)
(* workflow is 'completed' exactly if every step is 'completed'.           *)
(***************************************************************************)
AllCompleted(steps) == \A k \in 1..Len(steps) : steps[k].status = "completed"

C34_InOrderStopAtFailure ==
    wf.runs > 0 =>
        /\ wf.started = [k \in 1..Len(wf.started) |-> k]
        /\ \A k \in 1..Len(wf.started) - 1 : wf.steps[k].status = "completed"
        /\ \A k \in Len(wf.started) + 1..Len(wf.steps) : wf.steps[k].status = wf.before[k]
        /\ wf.runs = 1 =>
              \A k \in Len(wf.started) + 1..Len(wf.steps) : wf.steps[k].status = "pending"
        /\ (wf.pc = "returned" /\ wf.failure # "none") =>
              /\ wf.steps[Len(wf.started)].status = "failed"
              /\ wf.status = "paused"
        /\ wf.pc = "returned" => (wf.status = "completed" <=> AllCompleted(wf.steps))

\* the second step fails after the first completed, on a workflow not
\* executed before; and a second call fails at the first step
C34_Witness ==
    /\ wf.pc = "returned"
    /\ wf.runs = 2
    /\ wf.before = <<"completed", "failed">>
    /\ wf.steps[1].status = "failed"
    /\ wf.steps[2].status = "failed"
    /\ wf.status = "paused"

(***************************************************************************)
(* C38: on a SecurityManager built with encryption disabled, when          *)
(* updateConfig has completed and left encryption enabled, the manager     *)
(* holds an encryption key, so that an encryptData call made then does not *)
(* fail with 'No encryption key available'.                                *)
(***************************************************************************)
C38_KeyAfterEnable ==
    (~sec.built /\ sec.encryptionEnabled /\ sec.lastEvent = "Security configuration updated")
    => FirstKey(sec.encryptionKeys) # 0

(***************************************************************************)
(* C37: when every recordLearningSession call made has completed and no    *)
(* database call failed, each agent named by n > 0 of the calls has        *)
(* exactly one agentPerformance row and its totalInteractions is n.        *)
(***************************************************************************)
CallsNaming(agentId) == {c \in LearnCallers : learn.calls[c].agentId = agentId}

C37_OneRowCountsAll ==
    (\A c \in LearnCallers : /\ learn.calls[c].pc \in {"idle", "done"}
                             /\ ~learn.calls[c].failed)
    => \A agentId \in LearnAgentIds \ {""} :
          LET n    == Cardinality({c \in CallsNaming(agentId) : learn.calls[c].pc = "done"})
              mine == SelectSeq(learn.performance, LAMBDA row : row.agentId = agentId)
          IN  n > 0 => /\ Len(mine) = 1
                       /\ mine[1].totalInteractions = n

C2_NeverFails ==
    \A c \in CallerIds :
        calls[c].pc = "done" =>
            /\ calls[c].result # NoVector
            /\ calls[c].result.dim > 0
            /\ calls[c].outcome = "fallback" =>
                  calls[c].result = SimpleGenerate(TextOf(calls[c].text))

C2_Witness ==
    \E c \in CallerIds :
        /\ calls[c].pc = "done"
        /\ calls[c].outcome = "fallback"
        /\ managers[calls[c].mgr].provider = "openai"
        /\ calls[c].result.dim = HashDimensions

(***************************************************************************)
(* C3: a provider failure inside getEmbeddings changes nothing in the      *)
(* manager: the step that ends a call by the fallback leaves the provider  *)
(* and the cache of every manager as they were.                            *)
(***************************************************************************)
C3_FailureFrame ==
    [][\A c \in CallerIds :
          (calls[c].pc = "await" /\ calls'[c].pc = "done"
              /\ calls'[c].outcome = "fallback")
          => (managers' = managers /\ current' = current)]_vars

C3_Witness ==
    \E c, d \in CallerIds :
        /\ calls[c].pc = "done" /\ calls[c].outcome = "fallback"
        /\ CacheKey(calls[c].text) \notin DOMAIN managers[calls[c].mgr].cache
        /\ calls[d].pc = "await" /\ calls[d].text = calls[c].text

(***************************************************************************)
(* C4: once a cached call for a text has returned the provider's vector,  *)
(* every later cached call for that text (no clearCache in between)        *)
(* returns that same vector and does not invoke the provider.              *)
(***************************************************************************)
C4_CachedVectorStable ==
    \A c \in CallerIds :
        (calls[c].pc = "done" /\ calls[c].expect # NoVector) =>
            /\ calls[c].result = calls[c].expect
            /\ ~calls[c].invoked

(***************************************************************************)
(* C5: whenever a search holds its query vector and is about to compare it *)
(* with the stored chunks, the query vector and every stored vector have   *)
(* the length getDimensions() of the manager in use.                       *)
(***************************************************************************)
C5_SameDimensions ==
    sr.pc = "got" =>
        /\ sr.emb.dim = GetDimensions(managers[current])
        /\ \A r \in rows :
              r.embeddings # NoVector => r.embeddings.dim = sr.emb.dim

C7_NoVectorlessReturned ==
    sr.pc \in {"searched", "done"} =>
        \A i \in 1..Len(sr.result) : sr.result[i].embeddings # NoVector

C10_FailureReported ==
    (sr.pc \in {"searched", "done"} /\ sr.dbFailed) => sr.outcome = "threw"

====
